---- MODULE Spec2Model ----
(***************************************************************************)
(* State-machine model of the centerpiece-auth Worker: the D1 tables, the  *)
(* redirect validator, and the request handlers (register, login, refresh, *)
(* token exchange).  A D1 statement a handler awaits is one atomic step;   *)
(* concurrent requests interleave between statements.  Local computation   *)
(* that follows a statement (checks on the row that was read, building the *)
(* response) is part of the step of that statement.                        *)
(***************************************************************************)
EXTENDS Integers, Sequences, FiniteSets, TLC

\* ---------------------------------------------------------------- bounds
NProcs == 2
\* refresh tokens a run of SpecRefresh may create
MaxTokens == 4
\* authorization codes a run of SpecExchange may create
MaxCodes == 2
MaxTicks == 1

Procs == 1..NProcs

\* ------------------------------------------------------- configuration
ENVIRONMENT == "staging"
AUTH_DOMAIN == "https://auth.centerpiecelab.com"
AUTH_CODE_TTL_SECONDS == 60
REFRESH_TOKEN_TTL_DAYS == 30
ACCESS_TOKEN_TTL_SECONDS == 900
RefreshTtlSeconds == REFRESH_TOKEN_TTL_DAYS * 24 * 60 * 60

\* SQL NULL / JS null / JS undefined in a column or local that otherwise
\* holds a number
NULL == -1
\* JS '' (also what `body.x || ''` yields for a missing field)
EMPTY == ""
\* JS null / SQL NULL in a slot that otherwise holds a string
null == "<null>"
\* JS truthiness of a string-or-null value
truthy(s) == s # null /\ s # EMPTY

\* ------------------------------------------------------ string helpers
Last(s) == SubSeq(s, Len(s), Len(s))

RECURSIVE TrimStart(_)
TrimStart(s) == IF Len(s) > 0 /\ Head(s) = " " THEN TrimStart(Tail(s)) ELSE s

RECURSIVE TrimEnd(_)
TrimEnd(s) ==
  IF Len(s) > 0 /\ Last(s) = " " THEN TrimEnd(SubSeq(s, 1, Len(s) - 1)) ELSE s

Trim(s) == TrimEnd(TrimStart(s))

endsWith(s, suffix) ==
  /\ Len(s) >= Len(suffix)
  /\ SubSeq(s, Len(s) - Len(suffix) + 1, Len(s)) = suffix

startsWith(s, prefix) ==
  /\ Len(s) >= Len(prefix)
  /\ SubSeq(s, 1, Len(prefix)) = prefix

\* s.split('.') as a sequence of strings
RECURSIVE splitDot(_, _)
splitDot(s, cur) ==
  IF Len(s) = 0 THEN <<cur>>
  ELSE IF Head(s) = "." THEN <<cur>> \o splitDot(Tail(s), "")
  ELSE splitDot(Tail(s), cur \o Head(s))

Digits == {"0", "1", "2", "3", "4", "5", "6", "7", "8", "9"}

RECURSIVE allDigits(_)
allDigits(s) == Len(s) = 0 \/ (Head(s) \in Digits /\ allDigits(Tail(s)))

\* /^\d{1,3}$/
isDigits1to3(s) == Len(s) >= 1 /\ Len(s) <= 3 /\ allDigits(s)

\* -------------------------------------------------------------- digests
\* SHA-256 is modelled as a collision-free tagging of its input; the hex
\* and the base64url encodings of a digest are different strings.
sha256Hex(data) == "sha256hex:" \o data

sha256Base64Url(data) == "sha256b64:" \o data

hashRefreshToken(token) == sha256Hex(token)

hashAuthCode(code) == sha256Hex(code)

\* --------------------------------------------------- redirect validator
CONTROLLED_SUFFIXES ==
  { ".centerpiece.shop", ".centerpiece.app", ".centerpiece.io",
    ".centerpiecelab.com", ".workers.dev", ".pages.dev" }

DEV_HOSTS == {"localhost", "127.0.0.1"}

ADMIN_DOMAINS == {"admin.centerpiecelab.com", "centerpiece-admin-staging.pages.dev"}

\* TENANT_CONFIGS KV: `domain:<host>` -> tenant config id (absent: EMPTY)
TENANT_CONFIGS == [h \in {"shop.acme.test"} |-> "tenant-acme"]

\* A redirect parameter is given as the result of `new URL(redirectUrl)`:
\* parsed = FALSE when the constructor throws.
Url(parsed, protocol, hostname, pathname, hash) ==
  [parsed |-> parsed, protocol |-> protocol, hostname |-> hostname,
   pathname |-> pathname, hash |-> hash]

STORE_REDIRECT == Url(TRUE, "https:", "test-store.centerpiece.shop", "/shop", "")
ADMIN_REDIRECT == Url(TRUE, "https:", "centerpiece-admin-staging.pages.dev", "/dashboard", "")
EVIL_REDIRECT == Url(TRUE, "https:", "evil.com", "/steal", "")

urlOrigin(url) == url.protocol \o "//" \o url.hostname

isIpLiteral(hostname) ==
  \/ startsWith(hostname, "[")
  \/ LET parts == splitDot(hostname, "")
     IN  Len(parts) = 4 /\ \A i \in 1..4 : isDigits1to3(parts[i])

lookupTenantByDomain(hostname) ==
  IF hostname \in DOMAIN TENANT_CONFIGS THEN TENANT_CONFIGS[hostname] ELSE EMPTY

deriveTenantIdFromHostname(hostname) == lookupTenantByDomain(hostname)

invalidRedirect == [valid |-> FALSE, origin |-> EMPTY, tenantId |-> EMPTY]

\* variant: every deployment is treated as a development one
validateRedirectUrl_DevEverywhere(url, environment) ==
  LET isDev == TRUE
      hostname == url.hostname
      isControlledDomain == \E suffix \in CONTROLLED_SUFFIXES : endsWith(hostname, suffix)
      isDevLocalhost == isDev /\ hostname \in DEV_HOSTS
      derived == deriveTenantIdFromHostname(hostname)
      tenantId == lookupTenantByDomain(hostname)
  IN  IF ~url.parsed THEN invalidRedirect
      ELSE IF url.protocol = "javascript:" THEN invalidRedirect
      ELSE IF url.protocol # "https:"
              /\ ~(url.protocol = "http:" /\ isDev /\ hostname \in DEV_HOSTS)
           THEN invalidRedirect
      ELSE IF isIpLiteral(hostname) /\ ~(isDev /\ hostname \in DEV_HOSTS)
           THEN invalidRedirect
      ELSE IF url.hash # EMPTY THEN invalidRedirect
      ELSE IF isControlledDomain \/ isDevLocalhost
           THEN [valid |-> TRUE, origin |-> urlOrigin(url),
                 tenantId |-> IF derived # EMPTY THEN derived ELSE "__unknown__"]
      ELSE IF tenantId # EMPTY
           THEN [valid |-> TRUE, origin |-> urlOrigin(url), tenantId |-> tenantId]
      ELSE invalidRedirect

validateRedirectUrl(url, environment) ==
  LET isDev == environment # "production"
      hostname == url.hostname
      isControlledDomain == \E suffix \in CONTROLLED_SUFFIXES : endsWith(hostname, suffix)
      isDevLocalhost == isDev /\ hostname \in DEV_HOSTS
      derived == deriveTenantIdFromHostname(hostname)
      tenantId == lookupTenantByDomain(hostname)
  IN  IF ~url.parsed THEN invalidRedirect
      ELSE IF url.protocol = "javascript:" THEN invalidRedirect
      ELSE IF url.protocol # "https:"
              /\ ~(url.protocol = "http:" /\ isDev /\ hostname \in DEV_HOSTS)
           THEN invalidRedirect
      ELSE IF isIpLiteral(hostname) /\ ~(isDev /\ hostname \in DEV_HOSTS)
           THEN invalidRedirect
      ELSE IF url.hash # EMPTY THEN invalidRedirect
      ELSE IF isControlledDomain \/ isDevLocalhost
           THEN [valid |-> TRUE, origin |-> urlOrigin(url),
                 tenantId |-> IF derived # EMPTY THEN derived ELSE "__unknown__"]
      ELSE IF tenantId # EMPTY
           THEN [valid |-> TRUE, origin |-> urlOrigin(url), tenantId |-> tenantId]
      ELSE invalidRedirect

resolveAudience(redirectUrl, audienceParam) ==
  IF audienceParam = "admin" THEN "admin"
  ELSE IF redirectUrl.parsed /\ redirectUrl.hostname \in ADMIN_DOMAINS THEN "admin"
  ELSE "storefront"

\* ------------------------------------------------------------ passwords
\* PBKDF2 with a random salt: the stored record verifies exactly the
\* password it was derived from.
hashPassword(password) == "pbkdf2:100000:" \o password

verifyPassword(password, storedHash) == storedHash = "pbkdf2:100000:" \o password

\* --------------------------------------------------------- toLowerCase
UPPER == "ABCDEFGHIJKLMNOPQRSTUVWXYZ"
LOWER == "abcdefghijklmnopqrstuvwxyz"

lowerChar(c) ==
  IF \E i \in 1..26 : SubSeq(UPPER, i, i) = c
  THEN LET i == CHOOSE i \in 1..26 : SubSeq(UPPER, i, i) = c IN SubSeq(LOWER, i, i)
  ELSE c

RECURSIVE toLowerCase(_)
toLowerCase(s) ==
  IF Len(s) = 0 THEN s ELSE lowerChar(Head(s)) \o toLowerCase(Tail(s))

RECURSIVE countChar(_, _)
countChar(s, c) ==
  IF Len(s) = 0 THEN 0
  ELSE (IF Head(s) = c THEN 1 ELSE 0) + countChar(Tail(s), c)

\* /^[^\s@]+@[^\s@]+\.[^\s@]+$/
isValidEmail(email) ==
  /\ countChar(email, " ") = 0
  /\ countChar(email, "@") = 1
  /\ \E at \in 2..(Len(email) - 3) :
       /\ SubSeq(email, at, at) = "@"
       /\ \E dot \in (at + 2)..(Len(email) - 1) : SubSeq(email, dot, dot) = "."

\* ------------------------------------------------------------ D1 tables
VARIABLES
  users,           \* users rows
  memberships,     \* tenant_memberships rows
  auth_codes,      \* auth_codes rows
  refresh_tokens,  \* refresh_tokens rows
  now,             \* Math.floor(Date.now() / 1000)
  ticks,           \* number of clock advances so far
  procs,           \* the requests in flight, one per isolate slot
  resp,            \* the response just returned by the last step, if any
  nextCode,        \* number of authorization codes generated so far
  cookies,         \* refresh-token plaintexts handed to browsers (Set-Cookie)
  minted,          \* history: code plaintext -> the request that minted it
  exchanged,       \* history: code plaintext -> number of access tokens issued
  rotations,       \* history: token hash -> number of successful rotations
  detected,        \* history: families whose family-wide revocation has run
  mismatched,      \* history: codes rejected for an origin mismatch
  quota,           \* number of sessions the run may create
  password_reset_tokens, \* password_reset_tokens rows
  oauth_states,    \* oauth_states rows
  oauth_accounts,  \* oauth_accounts rows
  mailbox,         \* reset-token plaintexts sent by e-mail
  nextHex,         \* number of OAuth state values generated so far
  passwordChanges, \* history: reset token -> number of password updates
  environment,     \* env.ENVIRONMENT of the deployment
  probe,           \* the last request answered at the edge, with its answer
  rate_limits,     \* KV: ratelimit:<ip>:<route>:<window> -> count
  letThrough,      \* history: rate-limit key -> requests allowed
  overlapped,      \* history: rate-limit keys checked by two requests at once
  failedOpen       \* history: rate-limit keys whose KV read or write failed

vars == << users, memberships, auth_codes, refresh_tokens, now, ticks, procs,
           resp, nextCode, cookies, minted, exchanged, rotations, detected,
           mismatched, quota, password_reset_tokens, oauth_states, oauth_accounts,
           mailbox, nextHex, passwordChanges, environment, probe, rate_limits,
           letThrough, overlapped, failedOpen >>

tables == << users, memberships, auth_codes, refresh_tokens >>
history == << minted, exchanged, rotations, detected, mismatched, quota >>
\* what the register / login / refresh / token handlers never touch
extra == << password_reset_tokens, oauth_states, oauth_accounts, mailbox, nextHex,
            passwordChanges >>
\* what only the edge of the Worker touches
edge == << environment, probe, rate_limits, letThrough, overlapped, failedOpen >>

\* --- users
getUserByEmail(us, email) == { u \in us : u.email = toLowerCase(email) }

getUserById(us, id) == { u \in us : u.id = id }

insertUser(us, user) ==
  us \cup { [id |-> user.id, email |-> toLowerCase(user.email),
             email_verified |-> user.email_verified,
             password_hash |-> user.password_hash, name |-> user.name] }

\* --- tenant_memberships
\* variant: ON CONFLICT ... DO UPDATE SET status = 'active'
ensureMembership_Reactivates(ms, userId, tenantId, t) ==
  IF \E m \in ms : m.user_id = userId /\ m.tenant_id = tenantId /\ m.role = "customer"
  THEN { IF m.user_id = userId /\ m.tenant_id = tenantId /\ m.role = "customer"
         THEN [m EXCEPT !.status = "active"] ELSE m : m \in ms }
  ELSE ms \cup { [user_id |-> userId, tenant_id |-> tenantId, role |-> "customer",
                  status |-> "active", created_at |-> t] }

\* variant: the conflict target is (user_id, tenant_id) and the row is rewritten
ensureMembership_ReplacesRole(ms, userId, tenantId, t) ==
  { m \in ms : ~(m.user_id = userId /\ m.tenant_id = tenantId) }
    \cup { [user_id |-> userId, tenant_id |-> tenantId, role |-> "customer",
            status |-> "active", created_at |-> t] }

ensureMembership(ms, userId, tenantId, t) ==
  IF \E m \in ms : m.user_id = userId /\ m.tenant_id = tenantId /\ m.role = "customer"
  THEN ms
  ELSE ms \cup { [user_id |-> userId, tenant_id |-> tenantId, role |-> "customer",
                  status |-> "active", created_at |-> t] }

\* rows in created_at order (the oldest first)
RECURSIVE orderByCreatedAt(_)
orderByCreatedAt(rows) ==
  IF rows = {} THEN << >>
  ELSE LET first == CHOOSE m \in rows : \A o \in rows : m.created_at <= o.created_at
       IN  << first >> \o orderByCreatedAt(rows \ {first})

getAdminMemberships(ms, userId) ==
  orderByCreatedAt({ m \in ms : m.user_id = userId /\ m.role # "customer"
                                /\ m.status = "active" })

\* --- auth_codes
insertAuthCode(codes, code) == codes \cup {code}

selectAuthCode(codes, codeHash) == { c \in codes : c.code_hash = codeHash }

\* variant: the DELETE is left out
deleteAuthCode_Omitted(codes, codeHash) == codes

\* variant: the DELETE removes the row only once it has expired
deleteAuthCode_ExpiredOnly(codes, codeHash) ==
  { c \in codes : ~(c.code_hash = codeHash /\ c.expires_at <= now) }

deleteAuthCode(codes, codeHash) == { c \in codes : c.code_hash # codeHash }

\* --- refresh_tokens
insertRefreshToken(toks, token, t) ==
  toks \cup { [token_hash |-> token.token_hash, user_id |-> token.user_id,
               family_id |-> token.family_id, expires_at |-> token.expires_at,
               revoked_at |-> NULL, last_used_at |-> NULL, created_at |-> t] }

getRefreshTokenByHash(toks, tokenHash) == { r \in toks : r.token_hash = tokenHash }

\* UPDATE ... SET revoked_at = now, last_used_at = now WHERE token_hash = ?
revokeOldToken(toks, oldTokenHash, t) ==
  { IF r.token_hash = oldTokenHash
    THEN [r EXCEPT !.revoked_at = t, !.last_used_at = t] ELSE r : r \in toks }

\* variant: the WHERE clause selects the rows already revoked
revokeRefreshTokenFamily_Inverted(toks, familyId, t) ==
  { IF r.family_id = familyId /\ r.revoked_at # NULL
    THEN [r EXCEPT !.revoked_at = t] ELSE r : r \in toks }

\* variant: the UPDATE reaches every token of the users of the family
revokeRefreshTokenFamily_WholeUser(toks, familyId, t) ==
  LET owners == { r.user_id : r \in { x \in toks : x.family_id = familyId } }
  IN  { IF r.user_id \in owners /\ r.revoked_at = NULL
        THEN [r EXCEPT !.revoked_at = t] ELSE r : r \in toks }

revokeRefreshTokenFamily(toks, familyId, t) ==
  { IF r.family_id = familyId /\ r.revoked_at = NULL
    THEN [r EXCEPT !.revoked_at = t] ELSE r : r \in toks }

\* variant: the WHERE clause selects the rows already revoked
revokeAllRefreshTokensForUser_Inverted(toks, userId, t) ==
  { IF r.user_id = userId /\ r.revoked_at # NULL
    THEN [r EXCEPT !.revoked_at = t] ELSE r : r \in toks }

revokeAllRefreshTokensForUser(toks, userId, t) ==
  { IF r.user_id = userId /\ r.revoked_at = NULL
    THEN [r EXCEPT !.revoked_at = t] ELSE r : r \in toks }

\* variant: the UPDATE matches every token of the token's user
revokeRefreshToken_AllOfUser(toks, tokenHash, t) ==
  { IF (\E o \in toks : o.token_hash = tokenHash /\ o.user_id = r.user_id)
       /\ r.revoked_at = NULL
    THEN [r EXCEPT !.revoked_at = t] ELSE r : r \in toks }

revokeRefreshToken(toks, tokenHash, t) ==
  { IF r.token_hash = tokenHash /\ r.revoked_at = NULL
    THEN [r EXCEPT !.revoked_at = t] ELSE r : r \in toks }

\* ------------------------------------------------------- request inputs
NO_REDIRECT == Url(FALSE, "", "", "", "")

\* the PKCE verifier the admin SPA keeps, and its S256 challenge
VERIFIER == "verifier-0123456789-0123456789-0123456789-abc"
CHALLENGE == sha256Base64Url(VERIFIER)

\* the redirect / audience / code_challenge form fields of an auth flow
FlowParams ==
  { [redirect |-> STORE_REDIRECT, audience |-> "", code_challenge |-> ""],
    [redirect |-> STORE_REDIRECT, audience |-> "admin", code_challenge |-> CHALLENGE],
    [redirect |-> ADMIN_REDIRECT, audience |-> "", code_challenge |-> ""],
    [redirect |-> EVIL_REDIRECT, audience |-> "", code_challenge |-> ""] }

PASSWORD == "CorrectHorse1!"

Credentials ==
  { [email |-> " Alice@Example.com", password |-> PASSWORD, confirmPassword |-> PASSWORD],
    [email |-> "alice@example.com", password |-> "short", confirmPassword |-> "short"],
    [email |-> "alice@example.com", password |-> PASSWORD, confirmPassword |-> "Different1!"],
    [email |-> "not-an-email", password |-> PASSWORD, confirmPassword |-> PASSWORD] }

STORE_FLOW == [redirect |-> STORE_REDIRECT, audience |-> "", code_challenge |-> ""]

\* every flow with good credentials, and each bad credential once
RegisterBodies ==
  { [email |-> c.email, password |-> c.password, confirmPassword |-> c.confirmPassword,
     name |-> "", tenant |-> "test-tenant", redirect |-> f.redirect,
     audience |-> f.audience, code_challenge |-> f.code_challenge] :
      c \in { c \in Credentials : c.email = " Alice@Example.com" }, f \in FlowParams }
  \cup
  { [email |-> c.email, password |-> c.password, confirmPassword |-> c.confirmPassword,
     name |-> "", tenant |-> "test-tenant", redirect |-> STORE_FLOW.redirect,
     audience |-> STORE_FLOW.audience,
     code_challenge |-> STORE_FLOW.code_challenge] : c \in Credentials }

StoreRegistrations ==
  { b \in RegisterBodies : b.email = " Alice@Example.com" /\ b.redirect = STORE_REDIRECT
                            /\ b.audience = "" }

\* ----------------------------------------------------------- requests
idle == [kind |-> "idle"]
noResp == [kind |-> "none"]

\* a new request is taken by the lowest free isolate slot
CanStart(p) == procs[p] = idle /\ \A q \in Procs : q < p => procs[q] # idle

\* a response leaves the Worker before the next statement runs
Slots == IF resp = noResp THEN Procs ELSE {}

Minters == {"register", "login", "refresh", "forgot", "oauth"}

\* requests in flight that have still to insert their code
pendingCodes == Cardinality({ q \in Procs : procs[q].kind \in Minters })

\* every session request inserts one refresh token and then one code
Budget == nextCode + pendingCodes < quota

generateUserId == "user-" \o ToString(Cardinality(users) + 1)
generateRefreshToken == "rt-" \o ToString(Cardinality(refresh_tokens) + 1)
generateFamilyId == "family-" \o ToString(Cardinality(refresh_tokens) + 1)
generateAuthCode == "code-" \o ToString(nextCode + 1)

\* email.split('@')[0]
RECURSIVE emailPrefix(_)
emailPrefix(email) ==
  IF Len(email) = 0 \/ Head(email) = "@" THEN ""
  ELSE Head(email) \o emailPrefix(Tail(email))

\* 302 to the register / login page with an error code
errorRedirect(kind, error) ==
  [kind |-> kind, status |-> 302, error |-> error, setCookie |-> EMPTY,
   clearCookie |-> FALSE, code |-> EMPTY]

\* 302 to <origin>/auth/callback?code=... with the refresh cookie
codeRedirect(kind, origin, authCode, refreshToken) ==
  [kind |-> kind, status |-> 302, error |-> EMPTY, setCookie |-> refreshToken,
   clearCookie |-> FALSE, code |-> authCode, location |-> origin \o "/auth/callback"]

\* worker.ts: an exception escaping a handler
internalError(kind) ==
  [kind |-> kind, status |-> 500, error |-> "Internal server error",
   setCookie |-> EMPTY, clearCookie |-> FALSE, code |-> EMPTY]

\* variant: the tenant hint of the body wins when it is present
deriveTenantId_FromHint(redirectValidation, tenantParam) ==
  IF tenantParam # EMPTY THEN tenantParam ELSE redirectValidation.tenantId

\* the authoritative tenant comes from the redirect URL; the tenant field of
\* the body is a branding hint only
deriveTenantId(redirectValidation, tenantParam) == redirectValidation.tenantId

\* ------------------------------------------------ POST /api/register
registerError(body) ==
  LET email == toLowerCase(Trim(body.email))
      redirectValidation == validateRedirectUrl(body.redirect, ENVIRONMENT)
  IN  IF body.redirect = NO_REDIRECT \/ ~redirectValidation.valid THEN "invalid_redirect"
      ELSE IF email = EMPTY \/ ~isValidEmail(email) THEN "invalid_email"
      ELSE IF Len(body.password) < 8 THEN "password_weak"
      ELSE IF body.password # body.confirmPassword THEN "password_mismatch"
      ELSE IF getUserByEmail(users, email) # {} THEN "email_exists"
      ELSE EMPTY

\* parse, validate, SELECT the user by e-mail
handleRegister(p, body) ==
  /\ CanStart(p)
  /\ LET error == registerError(body)
     IN
     IF error # EMPTY
     THEN /\ resp' = errorRedirect("register", error)
          /\ UNCHANGED procs
     ELSE /\ Budget
          /\ resp' = noResp
          /\ procs' = [procs EXCEPT ![p] =
               [kind |-> "register", pc |-> "insertUser",
                email |-> toLowerCase(Trim(body.email)),
                password |-> body.password,
                name |-> IF Trim(body.name) = EMPTY
                         THEN emailPrefix(toLowerCase(Trim(body.email)))
                         ELSE Trim(body.name),
                tenantParam |-> Trim(body.tenant),
                redirect |-> body.redirect,
                redirectValidation |-> validateRedirectUrl(body.redirect, ENVIRONMENT),
                audience |-> Trim(body.audience),
                code_challenge |-> Trim(body.code_challenge),
                user_id |-> EMPTY, refreshToken |-> EMPTY]]
  /\ UNCHANGED << tables, now, ticks, nextCode, cookies, history >>
  /\ UNCHANGED extra
  /\ UNCHANGED edge

\* INSERT INTO users (email is UNIQUE: a conflict throws)
registerInsertUser(p) ==
  /\ procs[p].kind = "register" /\ procs[p].pc = "insertUser"
  /\ IF getUserByEmail(users, procs[p].email) # {}
     THEN /\ resp' = internalError("register")
          /\ procs' = [procs EXCEPT ![p] = idle]
          /\ UNCHANGED users
     ELSE /\ users' = insertUser(users,
               [id |-> generateUserId, email |-> procs[p].email,
                password_hash |-> hashPassword(procs[p].password),
                name |-> procs[p].name, email_verified |-> FALSE])
          /\ resp' = noResp
          /\ procs' = [procs EXCEPT ![p].pc = "ensureMembership",
                                    ![p].user_id = generateUserId]
  /\ UNCHANGED << memberships, auth_codes, refresh_tokens, now, ticks, nextCode,
                  cookies, history >>
  /\ UNCHANGED extra
  /\ UNCHANGED edge

registerEnsureMembership(p) ==
  /\ procs[p].kind = "register" /\ procs[p].pc = "ensureMembership"
  /\ memberships' = ensureMembership(memberships, procs[p].user_id,
        deriveTenantId(procs[p].redirectValidation, procs[p].tenantParam), now)
  /\ procs' = [procs EXCEPT ![p].pc = "insertRefreshToken"]
  /\ resp' = noResp
  /\ UNCHANGED << users, auth_codes, refresh_tokens, now, ticks, nextCode,
                  cookies, history >>
  /\ UNCHANGED extra
  /\ UNCHANGED edge

registerInsertRefreshToken(p) ==
  /\ procs[p].kind = "register" /\ procs[p].pc = "insertRefreshToken"
  /\ refresh_tokens' = insertRefreshToken(refresh_tokens,
        [token_hash |-> hashRefreshToken(generateRefreshToken),
         user_id |-> procs[p].user_id, family_id |-> generateFamilyId,
         expires_at |-> now + RefreshTtlSeconds], now)
  /\ procs' = [procs EXCEPT ![p].pc = "insertAuthCode",
                            ![p].refreshToken = generateRefreshToken]
  /\ resp' = noResp
  /\ UNCHANGED << users, memberships, auth_codes, now, ticks, nextCode,
                  cookies, history >>
  /\ UNCHANGED extra
  /\ UNCHANGED edge

registerInsertAuthCode(p) ==
  /\ procs[p].kind = "register" /\ procs[p].pc = "insertAuthCode"
  /\ LET redirectValidation == procs[p].redirectValidation
         aud == resolveAudience(procs[p].redirect, procs[p].audience)
         pkce == aud = "admin" /\ procs[p].code_challenge # EMPTY
     IN  /\ auth_codes' = insertAuthCode(auth_codes,
               [code_hash |-> hashAuthCode(generateAuthCode),
                user_id |-> procs[p].user_id,
                tenant_id |-> deriveTenantId(redirectValidation, procs[p].tenantParam),
                redirect_origin |-> redirectValidation.origin,
                aud |-> aud, expires_at |-> now + AUTH_CODE_TTL_SECONDS,
                code_challenge |-> IF pkce THEN procs[p].code_challenge ELSE null,
                code_challenge_method |-> IF pkce THEN "S256" ELSE null])
         /\ resp' = codeRedirect("register", redirectValidation.origin,
                                 generateAuthCode, procs[p].refreshToken)
  /\ nextCode' = nextCode + 1
  /\ cookies' = cookies \cup {procs[p].refreshToken}
  /\ minted' = minted @@ (generateAuthCode :>
        [via |-> "register", redirect |-> procs[p].redirect,
         audience |-> procs[p].audience, code_challenge |-> procs[p].code_challenge,
         user_id |-> procs[p].user_id, tenant |-> procs[p].tenantParam])
  /\ exchanged' = exchanged @@ (generateAuthCode :> 0)
  /\ procs' = [procs EXCEPT ![p] = idle]
  /\ UNCHANGED << users, memberships, refresh_tokens, now, ticks, rotations, detected,
                  mismatched, quota >>
  /\ UNCHANGED extra
  /\ UNCHANGED edge

\* --------------------------------------------------- POST /api/token
STORE_ORIGIN == urlOrigin(STORE_REDIRECT)
ADMIN_ORIGIN == urlOrigin(ADMIN_REDIRECT)

\* tenant_id / redirect_origin / code_verifier fields of a token request:
\* the values a well-behaved client sends, and one-field deviations from them
TokenParams ==
  { [tenant_id |-> "__unknown__", redirect_origin |-> o, code_verifier |-> v] :
      o \in {STORE_ORIGIN, ADMIN_ORIGIN}, v \in {EMPTY, VERIFIER} }
  \cup
  { [tenant_id |-> t, redirect_origin |-> STORE_ORIGIN, code_verifier |-> VERIFIER] :
      t \in {" __unknown__ ", "wrong-tenant-id", EMPTY} }
  \cup
  { [tenant_id |-> "__unknown__", redirect_origin |-> o, code_verifier |-> VERIFIER] :
      o \in {STORE_ORIGIN \o " ", "https://wrong-origin.com"} }
  \cup
  { [tenant_id |-> "__unknown__", redirect_origin |-> STORE_ORIGIN, code_verifier |-> v] :
      v \in {" " \o VERIFIER \o " ", "totally-wrong-verifier-0123456789-0123456789"} }

\* codes a client can present: the ones it was redirected with, and a made-up one
PresentableCodes == DOMAIN minted \cup {"totally-fake-code-that-does-not-exist"}

jsonError(message, status, req) ==
  [kind |-> "token", status |-> status, error |-> message, req |-> req,
   row |-> {}, payload |-> {}]

\* signJwt: iat / exp are stamped on the payload
signJwt(payload, ttlSeconds, t) ==
  payload @@ [iat |-> t, exp |-> t + ttlSeconds]

jsonToken(req, row, payload) ==
  [kind |-> "token", status |-> 200, error |-> EMPTY, req |-> req,
   row |-> {row}, payload |-> {payload}, token_type |-> "Bearer",
   expires_in |-> ACCESS_TOKEN_TTL_SECONDS]

issuedTotal ==
  LET RECURSIVE sum(_)
      sum(S) == IF S = {} THEN 0
                ELSE LET c == CHOOSE c \in S : TRUE IN exchanged[c] + sum(S \ {c})
  IN  sum(DOMAIN exchanged)

tokenRequest(code, params) ==
  [code |-> code, tenant_id |-> params.tenant_id,
   redirect_origin |-> params.redirect_origin, code_verifier |-> params.code_verifier]

missingFields(req) ==
  Trim(req.code) = EMPTY \/ Trim(req.tenant_id) = EMPTY \/ Trim(req.redirect_origin) = EMPTY

\* Parse the body, SELECT the code row (first statement of consumeAuthCode).
\* Only `code` is used before the row is deleted; the request keeps its code
\* here and its other fields appear in the step that first uses them.
handleTokenExchange(p, code, params) ==
  /\ CanStart(p)
  /\ LET req == tokenRequest(code, params)
         started == [afterExchange |-> Trim(code) \in DOMAIN exchanged
                                       /\ exchanged[Trim(code)] > 0,
                     afterMismatch |-> Trim(code) \in mismatched]
         rows == selectAuthCode(auth_codes, hashAuthCode(Trim(code)))
     IN  IF missingFields(req)
         THEN /\ resp' = jsonError("Missing required fields: code, tenant_id, redirect_origin",
                                   400, req) @@ started
              /\ UNCHANGED procs
         ELSE IF rows = {}
         THEN /\ resp' = jsonError("Invalid or expired authorization code", 400, req)
                         @@ started
              /\ UNCHANGED procs
         ELSE /\ resp' = noResp
              /\ procs' = [procs EXCEPT ![p] =
                   [kind |-> "token", pc |-> "deleteAuthCode", code |-> code,
                    started |-> started, row |-> CHOOSE r \in rows : TRUE]]
  /\ UNCHANGED << tables, now, ticks, nextCode, cookies, history >>
  /\ UNCHANGED extra
  /\ UNCHANGED edge

\* variant: the tenant_id comparison is left out
tokenError_NoTenantCheck(row, tenantId, redirectOrigin, codeVerifier, t) ==
  IF row.expires_at <= t THEN "Authorization code has expired"
  ELSE IF row.redirect_origin # redirectOrigin THEN "Authorization code origin mismatch"
  ELSE IF truthy(row.code_challenge) /\ ~truthy(codeVerifier)
       THEN "PKCE code_verifier is required for this authorization code"
  ELSE IF truthy(row.code_challenge) /\ sha256Base64Url(codeVerifier) # row.code_challenge
       THEN "PKCE code_verifier does not match code_challenge"
  ELSE EMPTY

\* variant: a code_verifier must be present but is not compared
tokenError_VerifierNotCompared(row, tenantId, redirectOrigin, codeVerifier, t) ==
  IF row.expires_at <= t THEN "Authorization code has expired"
  ELSE IF row.tenant_id # tenantId THEN "Authorization code tenant mismatch"
  ELSE IF row.redirect_origin # redirectOrigin THEN "Authorization code origin mismatch"
  ELSE IF truthy(row.code_challenge) /\ ~truthy(codeVerifier)
       THEN "PKCE code_verifier is required for this authorization code"
  ELSE EMPTY

\* the checks handleTokenExchange makes on the consumed row
\* variant: the expiry of the row is not looked at
tokenError_NoExpiryCheck(row, tenantId, redirectOrigin, codeVerifier, t) ==
  IF row.tenant_id # tenantId THEN "Authorization code tenant mismatch"
  ELSE IF row.redirect_origin # redirectOrigin THEN "Authorization code origin mismatch"
  ELSE IF truthy(row.code_challenge) /\ ~truthy(codeVerifier)
       THEN "PKCE code_verifier is required for this authorization code"
  ELSE IF truthy(row.code_challenge) /\ sha256Base64Url(codeVerifier) # row.code_challenge
       THEN "PKCE code_verifier does not match code_challenge"
  ELSE EMPTY

tokenError(row, tenantId, redirectOrigin, codeVerifier, t) ==
  IF row.expires_at <= t THEN "Authorization code has expired"
  ELSE IF row.tenant_id # tenantId THEN "Authorization code tenant mismatch"
  ELSE IF row.redirect_origin # redirectOrigin THEN "Authorization code origin mismatch"
  ELSE IF truthy(row.code_challenge) /\ ~truthy(codeVerifier)
       THEN "PKCE code_verifier is required for this authorization code"
  ELSE IF truthy(row.code_challenge) /\ sha256Base64Url(codeVerifier) # row.code_challenge
       THEN "PKCE code_verifier does not match code_challenge"
  ELSE EMPTY

\* variant: every access token is a storefront token
basePayload_StorefrontOnly(user, row) ==
  [sub |-> user.id, email |-> user.email,
   name |-> IF truthy(user.name) THEN user.name ELSE EMPTY,
   aud |-> "storefront", iss |-> AUTH_DOMAIN]

basePayload(user, row) ==
  [sub |-> user.id, email |-> user.email,
   name |-> IF truthy(user.name) THEN user.name ELSE EMPTY,
   aud |-> row.aud, iss |-> AUTH_DOMAIN]

\* jti, roles and primaryTenantId of an admin token
adminEnrichment(ms, userId, jti) ==
  LET admin == getAdminMemberships(ms, userId)
      primaryTenantId == IF Len(admin) > 0 THEN admin[1].tenant_id ELSE null
      scoped == SelectSeq(admin, LAMBDA m : m.tenant_id = primaryTenantId)
  IN  [jti |-> jti, roles |-> [i \in 1..Len(scoped) |-> scoped[i].role],
       primaryTenantId |-> primaryTenantId]

jwtPayload_AlwaysEnriched(user, row, ms, jti) ==
  basePayload(user, row) @@ adminEnrichment(ms, user.id, jti)

jwtPayload(user, row, ms, jti) ==
  IF row.aud = "admin"
  THEN basePayload(user, row) @@ adminEnrichment(ms, user.id, jti)
  ELSE basePayload(user, row)

\* DELETE the code row (second statement of consumeAuthCode), check the row
\* that was read, SELECT the user and (admin) the admin memberships, sign.
\* The two SELECTs read rows that no statement of these specifications
\* updates or deletes, so they are taken in the step of the DELETE.
tokenDeleteAuthCode(p, params) ==
  /\ procs[p].kind = "token" /\ procs[p].pc = "deleteAuthCode"
  /\ ~missingFields(tokenRequest(procs[p].code, params))
  /\ auth_codes' = deleteAuthCode(auth_codes, hashAuthCode(Trim(procs[p].code)))
  /\ LET req == tokenRequest(procs[p].code, params)
         row == procs[p].row
         error == tokenError(row, Trim(req.tenant_id), Trim(req.redirect_origin),
                             IF req.code_verifier # EMPTY THEN Trim(req.code_verifier)
                             ELSE null, now)
         found == getUserById(users, row.user_id)
         user == CHOOSE u \in found : TRUE
     IN  IF error # EMPTY
         THEN /\ resp' = [jsonError(error, 400, req) EXCEPT !.row = {row}]
                         @@ procs[p].started
              /\ mismatched' = IF error = "Authorization code origin mismatch"
                               THEN mismatched \cup {Trim(req.code)} ELSE mismatched
              /\ UNCHANGED exchanged
         ELSE IF found = {}
         THEN /\ resp' = [jsonError("User not found", 400, req) EXCEPT !.row = {row}]
                         @@ procs[p].started
              /\ UNCHANGED << mismatched, exchanged >>
         ELSE /\ resp' = jsonToken(req, row,
                   signJwt(jwtPayload(user, row, memberships,
                                      "jti-" \o ToString(issuedTotal + 1)),
                           ACCESS_TOKEN_TTL_SECONDS, now)) @@ procs[p].started
              /\ exchanged' = [exchanged EXCEPT ![Trim(req.code)] = @ + 1]
              /\ UNCHANGED mismatched
  /\ procs' = [procs EXCEPT ![p] = idle]
  /\ UNCHANGED << users, memberships, refresh_tokens, now, ticks, nextCode, cookies,
                  minted, rotations, detected, quota >>
  /\ UNCHANGED extra
  /\ UNCHANGED edge

\* --------------------------------------------------- POST /api/login
LoginBodies ==
  { [email |-> "Alice@example.com", password |-> PASSWORD, tenant |-> "test-tenant",
     redirect |-> f.redirect,
     audience |-> f.audience, code_challenge |-> f.code_challenge] : f \in FlowParams }
  \cup
  { [email |-> c[1], password |-> c[2], tenant |-> "test-tenant",
     redirect |-> STORE_FLOW.redirect,
     audience |-> STORE_FLOW.audience, code_challenge |-> STORE_FLOW.code_challenge] :
      c \in { <<"Alice@example.com", "WrongPassword123!">>,
               <<"nobody@example.com", PASSWORD>> } }

\* variant: a passwordless account is told so
loginError_RevealsPasswordless(body) ==
  LET email == toLowerCase(Trim(body.email))
      redirectValidation == validateRedirectUrl(body.redirect, ENVIRONMENT)
      found == getUserByEmail(users, email)
      user == CHOOSE u \in found : TRUE
  IN  IF body.redirect = NO_REDIRECT \/ ~redirectValidation.valid THEN "invalid_redirect"
      ELSE IF email = EMPTY THEN "invalid_credentials"
      ELSE IF found = {} THEN "invalid_credentials"
      ELSE IF ~truthy(user.password_hash) THEN "oauth_only"
      ELSE IF ~verifyPassword(body.password, user.password_hash) THEN "invalid_credentials"
      ELSE EMPTY

\* variant: the credentials are checked before the redirect
loginError_CredentialsFirst(body) ==
  LET email == toLowerCase(Trim(body.email))
      redirectValidation == validateRedirectUrl(body.redirect, ENVIRONMENT)
      found == getUserByEmail(users, email)
      user == CHOOSE u \in found : TRUE
  IN  IF email = EMPTY THEN "invalid_credentials"
      ELSE IF found = {} THEN "invalid_credentials"
      ELSE IF ~truthy(user.password_hash) THEN "invalid_credentials"
      ELSE IF ~verifyPassword(body.password, user.password_hash) THEN "invalid_credentials"
      ELSE IF body.redirect = NO_REDIRECT \/ ~redirectValidation.valid THEN "invalid_redirect"
      ELSE EMPTY

loginError(body) ==
  LET email == toLowerCase(Trim(body.email))
      redirectValidation == validateRedirectUrl(body.redirect, ENVIRONMENT)
      found == getUserByEmail(users, email)
      user == CHOOSE u \in found : TRUE
  IN  IF body.redirect = NO_REDIRECT \/ ~redirectValidation.valid THEN "invalid_redirect"
      ELSE IF email = EMPTY THEN "invalid_credentials"
      ELSE IF found = {} THEN "invalid_credentials"
      ELSE IF ~truthy(user.password_hash) THEN "invalid_credentials"
      ELSE IF ~verifyPassword(body.password, user.password_hash) THEN "invalid_credentials"
      ELSE EMPTY

\* the tenant and redirect parameters of the error redirect to /login
loginErrorLocation(body, error) ==
  [path |-> "/login", tenant |-> Trim(body.tenant),
   redirect |-> IF error = "invalid_redirect" THEN NO_REDIRECT ELSE body.redirect]

\* parse, validate the redirect, SELECT the user, verify the password
handleLogin(p, body) ==
  /\ CanStart(p)
  /\ LET error == loginError(body)
     IN
     IF error # EMPTY
     THEN /\ resp' = errorRedirect("login", error)
                     @@ [location |-> loginErrorLocation(body, error), req |-> body]
          /\ UNCHANGED procs
     ELSE /\ Budget
          /\ resp' = noResp
          /\ procs' = [procs EXCEPT ![p] =
               [kind |-> "login", pc |-> "ensureMembership",
                tenantParam |-> Trim(body.tenant),
                redirect |-> body.redirect,
                redirectValidation |-> validateRedirectUrl(body.redirect, ENVIRONMENT),
                audience |-> body.audience, code_challenge |-> body.code_challenge,
                user_id |-> (CHOOSE u \in getUserByEmail(users,
                                toLowerCase(Trim(body.email))) : TRUE).id,
                refreshToken |-> EMPTY]]
  /\ UNCHANGED << tables, now, ticks, nextCode, cookies, history >>
  /\ UNCHANGED extra
  /\ UNCHANGED edge

loginEnsureMembership(p) ==
  /\ procs[p].kind = "login" /\ procs[p].pc = "ensureMembership"
  /\ memberships' = ensureMembership(memberships, procs[p].user_id,
        deriveTenantId(procs[p].redirectValidation, procs[p].tenantParam), now)
  /\ procs' = [procs EXCEPT ![p].pc = "insertRefreshToken"]
  /\ resp' = noResp
  /\ UNCHANGED << users, auth_codes, refresh_tokens, now, ticks, nextCode,
                  cookies, history >>
  /\ UNCHANGED extra
  /\ UNCHANGED edge

loginInsertRefreshToken(p) ==
  /\ procs[p].kind = "login" /\ procs[p].pc = "insertRefreshToken"
  /\ refresh_tokens' = insertRefreshToken(refresh_tokens,
        [token_hash |-> hashRefreshToken(generateRefreshToken),
         user_id |-> procs[p].user_id, family_id |-> generateFamilyId,
         expires_at |-> now + RefreshTtlSeconds], now)
  /\ procs' = [procs EXCEPT ![p].pc = "insertAuthCode",
                            ![p].refreshToken = generateRefreshToken]
  /\ resp' = noResp
  /\ UNCHANGED << users, memberships, auth_codes, now, ticks, nextCode,
                  cookies, history >>
  /\ UNCHANGED extra
  /\ UNCHANGED edge

\* The handler stores aud 'storefront' and no code_challenge; the audience
\* and code_challenge fields the form carried are recorded in `minted` only.
loginInsertAuthCode(p) ==
  /\ procs[p].kind = "login" /\ procs[p].pc = "insertAuthCode"
  /\ LET redirectValidation == procs[p].redirectValidation
     IN  /\ auth_codes' = insertAuthCode(auth_codes,
               [code_hash |-> hashAuthCode(generateAuthCode),
                user_id |-> procs[p].user_id,
                tenant_id |-> deriveTenantId(redirectValidation, procs[p].tenantParam),
                redirect_origin |-> redirectValidation.origin,
                aud |-> "storefront", expires_at |-> now + AUTH_CODE_TTL_SECONDS,
                code_challenge |-> null, code_challenge_method |-> null])
         /\ resp' = codeRedirect("login", redirectValidation.origin,
                                 generateAuthCode, procs[p].refreshToken)
  /\ nextCode' = nextCode + 1
  /\ cookies' = cookies \cup {procs[p].refreshToken}
  /\ minted' = minted @@ (generateAuthCode :>
        [via |-> "login", redirect |-> procs[p].redirect,
         audience |-> procs[p].audience, code_challenge |-> procs[p].code_challenge,
         user_id |-> procs[p].user_id, tenant |-> procs[p].tenantParam])
  /\ exchanged' = exchanged @@ (generateAuthCode :> 0)
  /\ procs' = [procs EXCEPT ![p] = idle]
  /\ UNCHANGED << users, memberships, refresh_tokens, now, ticks, rotations, detected,
                  mismatched, quota >>
  /\ UNCHANGED extra
  /\ UNCHANGED edge

\* --------------------------------------------------- GET /api/refresh
RefreshParams ==
  { [redirect |-> STORE_REDIRECT, audience |-> ""],
    [redirect |-> STORE_REDIRECT, audience |-> "admin"],
    [redirect |-> EVIL_REDIRECT, audience |-> ""] }

StoreRefreshes == { r \in RefreshParams : r.audience = "" }

\* cookie values a browser can send: none, a delivered token, a made-up one
PresentableCookies == cookies \cup {EMPTY, "rt-forged"}

\* variant: the Set-Cookie header is never added
redirectToLogin_NeverClears(error, clearCookie, req) ==
  [kind |-> "refresh", status |-> 302, error |-> error, setCookie |-> EMPTY,
   clearCookie |-> FALSE, code |-> EMPTY, req |-> req]

redirectToLogin(error, clearCookie, req) ==
  [kind |-> "refresh", status |-> 302, error |-> error, setCookie |-> EMPTY,
   clearCookie |-> clearCookie, code |-> EMPTY, req |-> req]

rotatedBefore(token) == token \in DOMAIN rotations /\ rotations[token] > 0

\* variant: the handler does not look at revoked_at
handleRefresh_IgnoresRevocation(p, cookie, params) ==
  /\ CanStart(p)
  /\ LET redirectValidation == validateRedirectUrl(params.redirect, ENVIRONMENT)
         rows == getRefreshTokenByHash(refresh_tokens, hashRefreshToken(cookie))
         existingToken == CHOOSE r \in rows : TRUE
         req == [cookie |-> cookie, redirect |-> params.redirect,
                 audience |-> params.audience,
                 afterRotation |-> rotatedBefore(cookie),
                 afterDetection |-> rows # {} /\ existingToken.family_id \in detected]
     IN  IF params.redirect = NO_REDIRECT \/ ~redirectValidation.valid
         THEN /\ resp' = redirectToLogin("invalid_redirect", FALSE, req)
              /\ UNCHANGED procs
         ELSE IF cookie = EMPTY
         THEN /\ resp' = redirectToLogin("session_expired", FALSE, req)
              /\ UNCHANGED procs
         ELSE IF rows = {}
         THEN /\ resp' = redirectToLogin("session_expired", TRUE, req)
              /\ UNCHANGED procs
         ELSE IF existingToken.expires_at <= now
         THEN /\ resp' = redirectToLogin("session_expired", TRUE, req)
              /\ UNCHANGED procs
         ELSE /\ Budget
              /\ resp' = noResp
              /\ procs' = [procs EXCEPT ![p] =
                   [kind |-> "refresh", pc |-> "rotateSelect",
                    req |-> req, redirectValidation |-> redirectValidation,
                    existingToken |-> existingToken, newRefreshToken |-> EMPTY]]
  /\ UNCHANGED << tables, now, ticks, nextCode, cookies, history >>
  /\ UNCHANGED extra
  /\ UNCHANGED edge

\* validate the redirect, read the cookie, SELECT the token row, check it
handleRefresh(p, cookie, params) ==
  /\ CanStart(p)
  /\ LET redirectValidation == validateRedirectUrl(params.redirect, ENVIRONMENT)
         rows == getRefreshTokenByHash(refresh_tokens, hashRefreshToken(cookie))
         existingToken == CHOOSE r \in rows : TRUE
         req == [cookie |-> cookie, redirect |-> params.redirect,
                 audience |-> params.audience,
                 afterRotation |-> rotatedBefore(cookie),
                 afterDetection |-> rows # {} /\ existingToken.family_id \in detected]
     IN  IF params.redirect = NO_REDIRECT \/ ~redirectValidation.valid
         THEN /\ resp' = redirectToLogin("invalid_redirect", FALSE, req)
              /\ UNCHANGED procs
         ELSE IF cookie = EMPTY
         THEN /\ resp' = redirectToLogin("session_expired", FALSE, req)
              /\ UNCHANGED procs
         ELSE IF rows = {}
         THEN /\ resp' = redirectToLogin("session_expired", TRUE, req)
              /\ UNCHANGED procs
         ELSE IF existingToken.revoked_at # NULL
         THEN /\ resp' = noResp
              /\ procs' = [procs EXCEPT ![p] =
                   [kind |-> "refresh", pc |-> "revokeFamily",
                    req |-> req, redirectValidation |-> redirectValidation,
                    existingToken |-> existingToken, newRefreshToken |-> EMPTY]]
         ELSE IF existingToken.expires_at <= now
         THEN /\ resp' = redirectToLogin("session_expired", TRUE, req)
              /\ UNCHANGED procs
         ELSE /\ Budget
              /\ resp' = noResp
              /\ procs' = [procs EXCEPT ![p] =
                   [kind |-> "refresh", pc |-> "rotateSelect",
                    req |-> req, redirectValidation |-> redirectValidation,
                    existingToken |-> existingToken, newRefreshToken |-> EMPTY]]
  /\ UNCHANGED << tables, now, ticks, nextCode, cookies, history >>
  /\ UNCHANGED extra
  /\ UNCHANGED edge

\* reuse detected by the handler: revoke the family, reject
refreshRevokeFamily(p) ==
  /\ procs[p].kind = "refresh" /\ procs[p].pc = "revokeFamily"
  /\ refresh_tokens' = revokeRefreshTokenFamily(refresh_tokens,
                                                procs[p].existingToken.family_id, now)
  /\ detected' = detected \cup {procs[p].existingToken.family_id}
  /\ resp' = redirectToLogin("session_expired", TRUE, procs[p].req)
  /\ procs' = [procs EXCEPT ![p] = idle]
  /\ UNCHANGED << users, memberships, auth_codes, now, ticks, nextCode, cookies,
                  minted, exchanged, rotations, mismatched, quota >>
  /\ UNCHANGED extra
  /\ UNCHANGED edge

\* rotateRefreshToken: SELECT the old token again
rotateSelect(p) ==
  /\ procs[p].kind = "refresh" /\ procs[p].pc = "rotateSelect"
  /\ LET rows == getRefreshTokenByHash(refresh_tokens,
                                       hashRefreshToken(procs[p].req.cookie))
         existing == CHOOSE r \in rows : TRUE
     IN  IF rows = {}
         THEN /\ resp' = redirectToLogin("session_expired", TRUE, procs[p].req)
              /\ procs' = [procs EXCEPT ![p] = idle]
         ELSE IF existing.revoked_at # NULL
         THEN /\ resp' = noResp
              /\ procs' = [procs EXCEPT ![p].pc = "rotateRevokeFamily"]
         ELSE /\ resp' = noResp
              /\ procs' = [procs EXCEPT ![p].pc = "rotateUpdate"]
  /\ UNCHANGED << tables, now, ticks, nextCode, cookies, history >>
  /\ UNCHANGED extra
  /\ UNCHANGED edge

\* rotateRefreshToken: reuse detected, revoke the family, reject
rotateRevokeFamily(p) ==
  /\ procs[p].kind = "refresh" /\ procs[p].pc = "rotateRevokeFamily"
  /\ refresh_tokens' = revokeRefreshTokenFamily(refresh_tokens,
                                                procs[p].existingToken.family_id, now)
  /\ detected' = detected \cup {procs[p].existingToken.family_id}
  /\ resp' = redirectToLogin("session_expired", TRUE, procs[p].req)
  /\ procs' = [procs EXCEPT ![p] = idle]
  /\ UNCHANGED << users, memberships, auth_codes, now, ticks, nextCode, cookies,
                  minted, exchanged, rotations, mismatched, quota >>
  /\ UNCHANGED extra
  /\ UNCHANGED edge

\* rotateRefreshToken: UPDATE the old token to revoked
rotateUpdate(p) ==
  /\ procs[p].kind = "refresh" /\ procs[p].pc = "rotateUpdate"
  /\ refresh_tokens' = revokeOldToken(refresh_tokens,
                                      hashRefreshToken(procs[p].req.cookie), now)
  /\ procs' = [procs EXCEPT ![p].pc = "rotateInsert"]
  /\ resp' = noResp
  /\ UNCHANGED << users, memberships, auth_codes, now, ticks, nextCode, cookies,
                  history >>
  /\ UNCHANGED extra
  /\ UNCHANGED edge

\* rotateRefreshToken: INSERT the replacement in the same family
rotateInsert(p) ==
  /\ procs[p].kind = "refresh" /\ procs[p].pc = "rotateInsert"
  /\ refresh_tokens' = insertRefreshToken(refresh_tokens,
        [token_hash |-> hashRefreshToken(generateRefreshToken),
         user_id |-> procs[p].existingToken.user_id,
         family_id |-> procs[p].existingToken.family_id,
         expires_at |-> now + RefreshTtlSeconds], now)
  /\ procs' = [procs EXCEPT ![p].pc = "insertAuthCode",
                            ![p].newRefreshToken = generateRefreshToken]
  /\ resp' = noResp
  /\ UNCHANGED << users, memberships, auth_codes, now, ticks, nextCode, cookies,
                  history >>
  /\ UNCHANGED extra
  /\ UNCHANGED edge

\* rotation succeeded: INSERT a code, redirect with the new cookie
refreshInsertAuthCode(p) ==
  /\ procs[p].kind = "refresh" /\ procs[p].pc = "insertAuthCode"
  /\ LET req == procs[p].req
         redirectValidation == procs[p].redirectValidation
         aud == resolveAudience(req.redirect, req.audience)
     IN  /\ auth_codes' = insertAuthCode(auth_codes,
               [code_hash |-> hashAuthCode(generateAuthCode),
                user_id |-> procs[p].existingToken.user_id,
                tenant_id |-> redirectValidation.tenantId,
                redirect_origin |-> redirectValidation.origin,
                aud |-> aud, expires_at |-> now + AUTH_CODE_TTL_SECONDS,
                code_challenge |-> null, code_challenge_method |-> null])
         /\ resp' = codeRedirect("refresh", redirectValidation.origin, generateAuthCode,
                                 procs[p].newRefreshToken) @@ [req |-> req]
         /\ minted' = minted @@ (generateAuthCode :>
               [via |-> "refresh", redirect |-> req.redirect, audience |-> req.audience,
                code_challenge |-> EMPTY, user_id |-> procs[p].existingToken.user_id])
         /\ rotations' = IF req.cookie \in DOMAIN rotations
                         THEN [rotations EXCEPT ![req.cookie] = @ + 1]
                         ELSE rotations @@ (req.cookie :> 1)
  /\ nextCode' = nextCode + 1
  /\ cookies' = cookies \cup {procs[p].newRefreshToken}
  /\ exchanged' = exchanged @@ (generateAuthCode :> 0)
  /\ procs' = [procs EXCEPT ![p] = idle]
  /\ UNCHANGED << users, memberships, refresh_tokens, now, ticks, detected, mismatched, quota >>
  /\ UNCHANGED extra
  /\ UNCHANGED edge

\* -------------------------------------------------------------- clock
\* The clock steps are a minute or more; no request is in flight that long.
Tick(d) ==
  /\ resp = noResp
  /\ \A p \in Procs : procs[p] = idle
  /\ ticks < MaxTicks
  /\ now' = now + d
  /\ ticks' = ticks + 1
  /\ resp' = noResp
  /\ UNCHANGED << tables, procs, nextCode, cookies, history >>
  /\ UNCHANGED extra
  /\ UNCHANGED edge

\* the response is sent
Respond ==
  /\ resp # noResp
  /\ resp' = noResp
  /\ UNCHANGED << tables, now, ticks, procs, nextCode, cookies, history >>
  /\ UNCHANGED extra
  /\ UNCHANGED edge

\* ------------------------------------------------------------ behaviour
noProbe == [kind |-> "none"]

\* the staging deployment, nothing asked at the edge yet
InitEdge ==
  /\ environment = ENVIRONMENT /\ probe = noProbe
  /\ rate_limits = << >> /\ letThrough = << >> /\ overlapped = {} /\ failedOpen = {}

InitTables ==
  /\ users = {} /\ memberships = {} /\ auth_codes = {} /\ refresh_tokens = {}
  /\ now = 1 /\ ticks = 0
  /\ procs = [p \in Procs |-> idle]
  /\ resp = noResp
  /\ nextCode = 0
  /\ cookies = {}
  /\ minted = << >> /\ exchanged = << >> /\ rotations = << >>
  /\ detected = {} /\ mismatched = {}
  /\ password_reset_tokens = {} /\ oauth_states = {} /\ oauth_accounts = {}
  /\ mailbox = {} /\ nextHex = 0 /\ passwordChanges = << >>
  /\ InitEdge

\* every table empty, the KV counters empty, the deployment left open
InitDeployment ==
  /\ users = {} /\ memberships = {} /\ auth_codes = {} /\ refresh_tokens = {}
  /\ now = 1 /\ ticks = 0
  /\ procs = [p \in Procs |-> idle]
  /\ resp = noResp
  /\ nextCode = 0
  /\ cookies = {}
  /\ minted = << >> /\ exchanged = << >> /\ rotations = << >>
  /\ detected = {} /\ mismatched = {}
  /\ password_reset_tokens = {} /\ oauth_states = {} /\ oauth_accounts = {}
  /\ mailbox = {} /\ nextHex = 0 /\ passwordChanges = << >>
  /\ probe = noProbe
  /\ rate_limits = << >> /\ letThrough = << >> /\ overlapped = {} /\ failedOpen = {}

RegisterSteps ==
  \/ \E p \in Slots : registerInsertUser(p)
  \/ \E p \in Slots : registerEnsureMembership(p)
  \/ \E p \in Slots : registerInsertRefreshToken(p)
  \/ \E p \in Slots : registerInsertAuthCode(p)

\* sessions and their rotation
NextRefresh ==
  \/ \E p \in Slots, body \in StoreRegistrations : handleRegister(p, body)
  \/ RegisterSteps
  \/ \E p \in Slots, cookie \in PresentableCookies, params \in StoreRefreshes :
       handleRefresh(p, cookie, params)
  \/ \E p \in Slots : refreshRevokeFamily(p)
  \/ \E p \in Slots : rotateSelect(p)
  \/ \E p \in Slots : rotateRevokeFamily(p)
  \/ \E p \in Slots : rotateUpdate(p)
  \/ \E p \in Slots : rotateInsert(p)
  \/ \E p \in Slots : refreshInsertAuthCode(p)
  \/ Tick(RefreshTtlSeconds)
  \/ Respond

InitRefresh == InitTables /\ quota = MaxTokens

SpecRefresh == InitRefresh /\ [][NextRefresh]_vars

\* authorization codes and their exchange
NextExchange ==
  \/ \E p \in Slots, body \in RegisterBodies : handleRegister(p, body)
  \/ RegisterSteps
  \/ \E p \in Slots, body \in LoginBodies : handleLogin(p, body)
  \/ \E p \in Slots : loginEnsureMembership(p)
  \/ \E p \in Slots : loginInsertRefreshToken(p)
  \/ \E p \in Slots : loginInsertAuthCode(p)
  \/ \E p \in Slots, code \in PresentableCodes, params \in TokenParams :
       handleTokenExchange(p, code, params)
  \/ \E p \in Slots, params \in TokenParams : tokenDeleteAuthCode(p, params)
  \/ Tick(AUTH_CODE_TTL_SECONDS)
  \/ Respond

InitExchange == InitTables /\ quota = MaxCodes

SpecExchange == InitExchange /\ [][NextExchange]_vars

\* ------------------------------------------ password_reset_tokens
RESET_TOKEN_TTL_SECONDS == 3600

insertPasswordResetToken_Omitted(rows, token) == rows

insertPasswordResetToken(rows, token) ==
  rows \cup { [token_hash |-> token.token_hash, user_id |-> token.user_id,
               expires_at |-> token.expires_at, used_at |-> NULL] }

\* SELECT ... WHERE token_hash = ? AND used_at IS NULL
selectPasswordResetToken(rows, tokenHash) ==
  { r \in rows : r.token_hash = tokenHash /\ r.used_at = NULL }

\* UPDATE ... SET used_at = now WHERE token_hash = ?
markPasswordResetTokenUsed(rows, tokenHash, t) ==
  { IF r.token_hash = tokenHash THEN [r EXCEPT !.used_at = t] ELSE r : r \in rows }

updateUserPassword(us, userId, passwordHash) ==
  { IF u.id = userId THEN [u EXCEPT !.password_hash = passwordHash] ELSE u : u \in us }

\* ------------------------------------------ POST /api/forgot-password
ForgotBodies ==
  { [email |-> e, tenant |-> "test-tenant", redirect |-> EMPTY] :
      e \in {" Alice@Example.com", "does-not-exist-xyz@nowhere.com", EMPTY} }

\* 302 to /login?tenant=..&redirect=..&message=reset_sent
successRedirect(tenant, redirect) ==
  [kind |-> "forgot", status |-> 302, error |-> EMPTY, message |-> "reset_sent",
   setCookie |-> EMPTY, clearCookie |-> FALSE, code |-> EMPTY,
   location |-> [path |-> "/login", tenant |-> tenant, redirect |-> redirect]]

\* parse the body, SELECT the user by e-mail
handleForgotPassword(p, body) ==
  /\ CanStart(p)
  /\ LET email == toLowerCase(Trim(body.email))
         found == getUserByEmail(users, email)
     IN  IF email = EMPTY \/ found = {}
         THEN /\ resp' = successRedirect(Trim(body.tenant), Trim(body.redirect))
                         @@ [req |-> body]
              /\ UNCHANGED procs
         ELSE /\ Budget
              /\ resp' = noResp
              /\ procs' = [procs EXCEPT ![p] =
                   [kind |-> "forgot", pc |-> "insertPasswordResetToken",
                    req |-> body, user |-> CHOOSE u \in found : TRUE]]
  /\ UNCHANGED << tables, now, ticks, nextCode, cookies, history, password_reset_tokens,
                  oauth_states, oauth_accounts, mailbox, nextHex, passwordChanges >>
  /\ UNCHANGED edge

\* INSERT the hashed reset token, mail the reset link, redirect
forgotInsertPasswordResetToken(p) ==
  /\ procs[p].kind = "forgot" /\ procs[p].pc = "insertPasswordResetToken"
  /\ password_reset_tokens' = insertPasswordResetToken(password_reset_tokens,
        [token_hash |-> sha256Hex(generateAuthCode), user_id |-> procs[p].user.id,
         expires_at |-> now + RESET_TOKEN_TTL_SECONDS])
  /\ nextCode' = nextCode + 1
  /\ mailbox' = mailbox \cup {generateAuthCode}
  /\ passwordChanges' = passwordChanges @@ (generateAuthCode :> 0)
  /\ resp' = successRedirect(Trim(procs[p].req.tenant), Trim(procs[p].req.redirect))
             @@ [req |-> procs[p].req]
  /\ procs' = [procs EXCEPT ![p] = idle]
  /\ UNCHANGED << tables, now, ticks, cookies, history, oauth_states, oauth_accounts,
                  nextHex >>
  /\ UNCHANGED edge

\* ------------------------------------------- POST /api/reset-password
NEW_PASSWORD == "NewSecurePass123!"

\* tokens a user can present: the ones mailed, and a made-up one
PresentableResetTokens == mailbox \cup {"completely-invalid-token", EMPTY}

ResetPasswords ==
  { [newPassword |-> NEW_PASSWORD, confirmPassword |-> NEW_PASSWORD, password |-> EMPTY],
    [newPassword |-> EMPTY, confirmPassword |-> EMPTY, password |-> NEW_PASSWORD],
    [newPassword |-> "short", confirmPassword |-> "short", password |-> EMPTY],
    [newPassword |-> NEW_PASSWORD, confirmPassword |-> "Different123!", password |-> EMPTY] }

\* 302 to /reset-password?tenant=..&token=..&error=..
resetErrorRedirect(tenant, error, token) ==
  [kind |-> "reset", status |-> 302, error |-> error, message |-> EMPTY,
   setCookie |-> EMPTY, clearCookie |-> FALSE, code |-> EMPTY,
   location |-> [path |-> "/reset-password", tenant |-> tenant, token |-> token]]

\* 302 to /login?tenant=..&message=password_changed
passwordChangedRedirect(tenant) ==
  [kind |-> "reset", status |-> 302, error |-> EMPTY, message |-> "password_changed",
   setCookie |-> EMPTY, clearCookie |-> FALSE, code |-> EMPTY,
   location |-> [path |-> "/login", tenant |-> tenant, token |-> EMPTY]]

\* body.newPassword || body.password || ''
firstTruthy(a, b) == IF a # EMPTY THEN a ELSE b

\* parse, validate, SELECT the unused token row (first statement of
\* consumePasswordResetToken)
handleResetPassword(p, token, passwords, tenantParam) ==
  /\ CanStart(p)
  /\ LET newPassword == firstTruthy(passwords.newPassword, passwords.password)
         confirmPassword == firstTruthy(passwords.confirmPassword, passwords.password)
         rows == selectPasswordResetToken(password_reset_tokens, sha256Hex(Trim(token)))
     IN  IF Trim(token) = EMPTY
         THEN /\ resp' = resetErrorRedirect(Trim(tenantParam), "invalid_token", EMPTY)
              /\ UNCHANGED procs
         ELSE IF Len(newPassword) < 8
         THEN /\ resp' = resetErrorRedirect(Trim(tenantParam), "password_weak", Trim(token))
              /\ UNCHANGED procs
         ELSE IF newPassword # confirmPassword
         THEN /\ resp' = resetErrorRedirect(Trim(tenantParam), "password_mismatch",
                                            Trim(token))
              /\ UNCHANGED procs
         ELSE IF rows = {}
         THEN /\ resp' = resetErrorRedirect(Trim(tenantParam), "invalid_token", EMPTY)
              /\ UNCHANGED procs
         ELSE /\ resp' = noResp
              /\ procs' = [procs EXCEPT ![p] =
                   [kind |-> "reset", pc |-> "markUsed", token |-> Trim(token),
                    newPassword |-> newPassword, tenant |-> Trim(tenantParam),
                    resetRow |-> CHOOSE r \in rows : TRUE]]
  /\ UNCHANGED << tables, now, ticks, nextCode, cookies, history, password_reset_tokens,
                  oauth_states, oauth_accounts, mailbox, nextHex, passwordChanges >>
  /\ UNCHANGED edge

\* variant: the expiry of the row is checked before it is marked used
resetMarkUsed_ExpiryFirst(p) ==
  /\ procs[p].kind = "reset" /\ procs[p].pc = "markUsed"
  /\ IF procs[p].resetRow.expires_at <= now
     THEN /\ resp' = resetErrorRedirect(procs[p].tenant, "token_expired", EMPTY)
          /\ procs' = [procs EXCEPT ![p] = idle]
          /\ UNCHANGED password_reset_tokens
     ELSE /\ resp' = noResp
          /\ procs' = [procs EXCEPT ![p].pc = "updateUserPassword"]
          /\ password_reset_tokens' = markPasswordResetTokenUsed(password_reset_tokens,
                sha256Hex(procs[p].token), now)
  /\ UNCHANGED << tables, now, ticks, nextCode, cookies, history, oauth_states,
                  oauth_accounts, mailbox, nextHex, passwordChanges >>
  /\ UNCHANGED edge

\* UPDATE used_at (second statement of consumePasswordResetToken), then the
\* expiry check on the row that was read
resetMarkUsed(p) ==
  /\ procs[p].kind = "reset" /\ procs[p].pc = "markUsed"
  /\ password_reset_tokens' = markPasswordResetTokenUsed(password_reset_tokens,
        sha256Hex(procs[p].token), now)
  /\ IF procs[p].resetRow.expires_at <= now
     THEN /\ resp' = resetErrorRedirect(procs[p].tenant, "token_expired", EMPTY)
          /\ procs' = [procs EXCEPT ![p] = idle]
     ELSE /\ resp' = noResp
          /\ procs' = [procs EXCEPT ![p].pc = "updateUserPassword"]
  /\ UNCHANGED << tables, now, ticks, nextCode, cookies, history, oauth_states,
                  oauth_accounts, mailbox, nextHex, passwordChanges >>
  /\ UNCHANGED edge

\* hash the new password, UPDATE users SET password_hash
resetUpdateUserPassword(p) ==
  /\ procs[p].kind = "reset" /\ procs[p].pc = "updateUserPassword"
  /\ users' = updateUserPassword(users, procs[p].resetRow.user_id,
                                 hashPassword(procs[p].newPassword))
  /\ passwordChanges' = [passwordChanges EXCEPT ![procs[p].token] = @ + 1]
  /\ procs' = [procs EXCEPT ![p].pc = "revokeAll"]
  /\ resp' = noResp
  /\ UNCHANGED << memberships, auth_codes, refresh_tokens, now, ticks, nextCode, cookies,
                  history, password_reset_tokens, oauth_states, oauth_accounts, mailbox,
                  nextHex >>
  /\ UNCHANGED edge

\* UPDATE refresh_tokens SET revoked_at ... WHERE user_id = ? AND revoked_at IS NULL
resetRevokeAll(p) ==
  /\ procs[p].kind = "reset" /\ procs[p].pc = "revokeAll"
  /\ refresh_tokens' = revokeAllRefreshTokensForUser(refresh_tokens,
                          procs[p].resetRow.user_id, now)
  /\ procs' = [procs EXCEPT ![p].pc = "redirect"]
  /\ resp' = noResp
  /\ UNCHANGED << users, memberships, auth_codes, now, ticks, nextCode, cookies,
                  history, extra >>
  /\ UNCHANGED edge

\* The handler resumes after its last statement and returns the redirect.
\* Statements of other requests may reach the database in between, so the
\* redirect of a completed reset is a step of its own.
resetRedirect(p) ==
  /\ procs[p].kind = "reset" /\ procs[p].pc = "redirect"
  /\ resp' = passwordChangedRedirect(procs[p].tenant)
             @@ [user_id |-> procs[p].resetRow.user_id, token |-> procs[p].token]
  /\ procs' = [procs EXCEPT ![p] = idle]
  /\ UNCHANGED << tables, now, ticks, nextCode, cookies, history, extra >>
  /\ UNCHANGED edge

\* ------------------------------- POST /api/logout, /api/logout-all
\* 200 {success: true} with the Set-Cookie that clears the refresh cookie
logoutResponse(kind, cookie) ==
  [kind |-> kind, status |-> 200, error |-> EMPTY, success |-> TRUE,
   setCookie |-> EMPTY, clearCookie |-> TRUE, code |-> EMPTY, req |-> [cookie |-> cookie]]

\* revoke the refresh token of the cookie
handleLogout(p, cookie) ==
  /\ CanStart(p)
  /\ refresh_tokens' = IF cookie # EMPTY
                       THEN revokeRefreshToken(refresh_tokens, hashRefreshToken(cookie), now)
                       ELSE refresh_tokens
  /\ resp' = logoutResponse("logout", cookie)
  /\ UNCHANGED << users, memberships, auth_codes, now, ticks, procs, nextCode, cookies,
                  history, extra >>
  /\ UNCHANGED edge

\* SELECT the refresh token of the cookie
handleLogoutAll(p, cookie) ==
  /\ CanStart(p)
  /\ LET rows == getRefreshTokenByHash(refresh_tokens, hashRefreshToken(cookie))
     IN  IF cookie = EMPTY \/ rows = {}
         THEN /\ resp' = logoutResponse("logoutAll", cookie)
              /\ UNCHANGED procs
         ELSE /\ resp' = noResp
              /\ procs' = [procs EXCEPT ![p] =
                   [kind |-> "logoutAll", pc |-> "revokeAll", cookie |-> cookie,
                    existingToken |-> CHOOSE r \in rows : TRUE]]
  /\ UNCHANGED << tables, now, ticks, nextCode, cookies, history, extra >>
  /\ UNCHANGED edge

\* revoke every refresh token of the user
logoutAllRevokeAll(p) ==
  /\ procs[p].kind = "logoutAll" /\ procs[p].pc = "revokeAll"
  /\ refresh_tokens' = revokeAllRefreshTokensForUser(refresh_tokens,
                          procs[p].existingToken.user_id, now)
  /\ resp' = logoutResponse("logoutAll", procs[p].cookie)
             @@ [user_id |-> procs[p].existingToken.user_id]
  /\ procs' = [procs EXCEPT ![p] = idle]
  /\ UNCHANGED << users, memberships, auth_codes, now, ticks, nextCode, cookies,
                  history, extra >>
  /\ UNCHANGED edge

\* password reset and logout: alice has a password and a session, bob signed
\* up through a provider and has no password
RESET_USERS ==
  { [id |-> "user-1", email |-> "alice@example.com", email_verified |-> FALSE,
     password_hash |-> hashPassword(PASSWORD), name |-> "alice"],
    [id |-> "user-2", email |-> "bob@example.com", email_verified |-> TRUE,
     password_hash |-> null, name |-> "bob"] }

RESET_MEMBERSHIPS ==
  { [user_id |-> u, tenant_id |-> "__unknown__", role |-> "customer",
     status |-> "active", created_at |-> 0] : u \in {"user-1", "user-2"} }

RESET_SESSIONS ==
  insertRefreshToken({},
    [token_hash |-> hashRefreshToken("rt-1"), user_id |-> "user-1",
     family_id |-> "family-1", expires_at |-> 1 + RefreshTtlSeconds], 1)

\* logins with the old and the new password, of a passwordless and of an
\* unknown account
ResetLogins ==
  { [email |-> c[1], password |-> c[2], tenant |-> "test-tenant",
     redirect |-> STORE_REDIRECT, audience |-> EMPTY, code_challenge |-> EMPTY] :
      c \in { <<"alice@example.com", PASSWORD>>, <<"alice@example.com", NEW_PASSWORD>>,
               <<"bob@example.com", PASSWORD>>, <<"nobody@example.com", PASSWORD>> } }

InitReset ==
  /\ users = RESET_USERS /\ memberships = RESET_MEMBERSHIPS
  /\ auth_codes = {} /\ refresh_tokens = RESET_SESSIONS
  /\ now = 1 /\ ticks = 0
  /\ procs = [p \in Procs |-> idle]
  /\ resp = noResp
  /\ nextCode = 0
  /\ cookies = {"rt-1"}
  /\ minted = << >> /\ exchanged = << >> /\ rotations = << >>
  /\ detected = {} /\ mismatched = {}
  /\ password_reset_tokens = {} /\ oauth_states = {} /\ oauth_accounts = {}
  /\ mailbox = {} /\ nextHex = 0 /\ passwordChanges = << >>
  /\ quota = MaxCodes
  /\ InitEdge

NextReset ==
  \/ \E p \in Slots, body \in ResetLogins : handleLogin(p, body)
  \/ \E p \in Slots : loginEnsureMembership(p)
  \/ \E p \in Slots : loginInsertRefreshToken(p)
  \/ \E p \in Slots : loginInsertAuthCode(p)
  \/ \E p \in Slots, body \in ForgotBodies : handleForgotPassword(p, body)
  \/ \E p \in Slots : forgotInsertPasswordResetToken(p)
  \/ \E p \in Slots, token \in PresentableResetTokens, passwords \in ResetPasswords :
       handleResetPassword(p, token, passwords, "test-tenant")
  \/ \E p \in Slots : resetMarkUsed(p)
  \/ \E p \in Slots : resetUpdateUserPassword(p)
  \/ \E p \in Slots : resetRevokeAll(p)
  \/ \E p \in Slots : resetRedirect(p)
  \/ \E p \in Slots, cookie \in PresentableCookies : handleLogout(p, cookie)
  \/ \E p \in Slots, cookie \in PresentableCookies : handleLogoutAll(p, cookie)
  \/ \E p \in Slots : logoutAllRevokeAll(p)
  \/ Tick(RESET_TOKEN_TTL_SECONDS)
  \/ Respond

SpecReset == InitReset /\ [][NextReset]_vars

\* ------------------------------------------------------ federated login
\* oauth states a run of SpecOAuth may create
MaxStates == 2

STATE_TTL_SECONDS == 300

OAuthProviders == {"google", "apple"}

generateRandomHex == "state-" \o ToString(nextHex + 1)

\* --- oauth_states
insertOAuthState(rows, state) == rows \cup {state}

selectOAuthState(rows, stateValue) == { r \in rows : r.state = stateValue }

deleteOAuthState(rows, stateValue) == { r \in rows : r.state # stateValue }

\* --- oauth_accounts
getOAuthAccount(accounts, provider, providerAccountId) ==
  { a \in accounts : a.provider = provider /\ a.provider_account_id = providerAccountId }

\* ON CONFLICT(provider, provider_account_id) DO UPDATE SET user_id
upsertOAuthAccount(accounts, account) ==
  (accounts \ getOAuthAccount(accounts, account.provider, account.provider_account_id))
  \cup {account}

markEmailVerified(us, userId) ==
  { IF u.id = userId THEN [u EXCEPT !.email_verified = TRUE] ELSE u : u \in us }

\* 302 to the login page with an OAuth error code
oauthErrorRedirect(tenant, redirect, error) ==
  [kind |-> "oauth", status |-> 302, error |-> error, setCookie |-> EMPTY,
   clearCookie |-> FALSE, code |-> EMPTY,
   location |-> [path |-> "/login", tenant |-> tenant, redirect |-> redirect]]

\* GET /oauth/<provider>?tenant=&redirect= : validate, store a state row,
\* 302 to the provider (client id and secret are configured)
OAuthInitParams ==
  { [tenant |-> "test-tenant", redirect |-> STORE_REDIRECT],
    [tenant |-> "test-tenant", redirect |-> EVIL_REDIRECT] }

handleOAuthInit(p, provider, params) ==
  /\ CanStart(p)
  /\ LET validation == validateRedirectUrl(params.redirect, ENVIRONMENT)
     IN  IF params.redirect = NO_REDIRECT \/ ~validation.valid
         THEN /\ resp' = oauthErrorRedirect(params.tenant, NO_REDIRECT, "invalid_redirect")
              /\ UNCHANGED << oauth_states, nextHex >>
         ELSE /\ nextHex < MaxStates
              /\ oauth_states' = insertOAuthState(oauth_states,
                    [state |-> generateRandomHex, tenant_id |-> validation.tenantId,
                     redirect_url |-> params.redirect, provider |-> provider,
                     expires_at |-> now + STATE_TTL_SECONDS])
              /\ nextHex' = nextHex + 1
              /\ resp' = [kind |-> "oauthInit", status |-> 302, provider |-> provider,
                          state |-> generateRandomHex]
  /\ UNCHANGED << tables, now, ticks, procs, nextCode, cookies, history >>
  /\ UNCHANGED << password_reset_tokens, oauth_accounts, mailbox, passwordChanges >>
  /\ UNCHANGED edge

\* state values a browser can bring back: one handed out, or a made-up one
PresentableStates == { "state-" \o ToString(i) : i \in 1..nextHex } \cup {"state-forged"}

\* the callback's query / form fields
OAuthCallbacks ==
  { [code |-> c, state |-> st, error |-> EMPTY] :
      c \in {"provider-code", EMPTY}, st \in PresentableStates }
  \cup { [code |-> EMPTY, state |-> EMPTY, error |-> "access_denied"] }

\* what the provider's token endpoint answers for the code: a profile
\* (Google reports email_verified, Apple always verifies), or a failure
EXCHANGE_FAILED == [provider |-> "none"]

ProviderProfiles(provider) ==
  IF provider = "google"
  THEN { [provider |-> "google", providerAccountId |-> "g-1",
          email |-> "alice@example.com", emailVerified |-> v, name |-> EMPTY] :
            v \in BOOLEAN }
       \cup { [provider |-> "google", providerAccountId |-> "g-2",
               email |-> "carol@example.com", emailVerified |-> FALSE, name |-> EMPTY] }
  ELSE { [provider |-> "apple", providerAccountId |-> "a-1",
          email |-> "alice@example.com", emailVerified |-> TRUE, name |-> EMPTY] }

ExchangeOutcomes ==
  UNION { ProviderProfiles(provider) : provider \in OAuthProviders } \cup {EXCHANGE_FAILED}

\* variant: the provider of the consumed state is not compared
consumedStateValid_AnyProvider(row, provider, t) == ~(row.expires_at < t)

\* consumeOAuthState's expiry check and the handler's provider check
consumedStateValid(row, provider, t) ==
  ~(row.expires_at < t) /\ row.provider = provider

\* GET /oauth/<provider>/callback: read the fields, SELECT the state row
handleProviderOAuthCallback(p, provider, req) ==
  /\ CanStart(p)
  /\ LET rows == selectOAuthState(oauth_states, req.state)
     IN  IF req.error # EMPTY \/ req.code = EMPTY \/ req.state = EMPTY \/ rows = {}
         THEN /\ resp' = oauthErrorRedirect(EMPTY, NO_REDIRECT, "oauth_failed")
                         @@ [provider |-> provider, req |-> req]
              /\ UNCHANGED procs
         ELSE /\ Budget
              /\ resp' = noResp
              /\ procs' = [procs EXCEPT ![p] =
                   [kind |-> "oauth", pc |-> "deleteState", provider |-> provider,
                    req |-> req, stateData |-> CHOOSE r \in rows : TRUE,
                    profile |-> EXCHANGE_FAILED, existingUser |-> {},
                    user_id |-> EMPTY, refreshToken |-> EMPTY]]
  /\ UNCHANGED << tables, now, ticks, nextCode, cookies, history >>
  /\ UNCHANGED extra
  /\ UNCHANGED edge

\* the outcome of an OAuth callback, as the browser and the tests see it
oauthOutcome(p, response) ==
  response @@ [provider |-> procs[p].provider, req |-> procs[p].req,
               stateData |-> procs[p].stateData, profile |-> procs[p].profile,
               existingUser |-> procs[p].existingUser]

\* DELETE the state row, check expiry and provider, exchange the code with
\* the provider, re-validate the stored redirect
oauthDeleteState(p, outcome) ==
  /\ procs[p].kind = "oauth" /\ procs[p].pc = "deleteState"
  /\ outcome = EXCHANGE_FAILED \/ outcome \in ProviderProfiles(procs[p].provider)
  /\ oauth_states' = deleteOAuthState(oauth_states, procs[p].req.state)
  /\ LET stateData == procs[p].stateData
         redirectValidation == validateRedirectUrl(stateData.redirect_url, ENVIRONMENT)
     IN  IF ~consumedStateValid(stateData, procs[p].provider, now)
         THEN /\ resp' = oauthOutcome(p, oauthErrorRedirect(EMPTY, NO_REDIRECT, "oauth_failed"))
              /\ procs' = [procs EXCEPT ![p] = idle]
         ELSE IF outcome = EXCHANGE_FAILED
         THEN /\ resp' = oauthOutcome(p, oauthErrorRedirect(stateData.tenant_id,
                                          stateData.redirect_url, "oauth_failed"))
              /\ procs' = [procs EXCEPT ![p] = idle]
         ELSE IF ~redirectValidation.valid
         THEN /\ resp' = oauthOutcome(p, oauthErrorRedirect(stateData.tenant_id,
                                          NO_REDIRECT, "invalid_redirect"))
              /\ procs' = [procs EXCEPT ![p] = idle]
         ELSE /\ resp' = noResp
              /\ procs' = [procs EXCEPT ![p].pc = "getOAuthAccount",
                                        ![p].profile = outcome]
  /\ UNCHANGED << tables, now, ticks, nextCode, cookies, history >>
  /\ UNCHANGED << password_reset_tokens, oauth_accounts, mailbox, nextHex,
                  passwordChanges >>
  /\ UNCHANGED edge

\* resolveUser 1: SELECT the provider link (profile.name is empty, so the
\* name of a linked user is left alone)
resolveGetOAuthAccount(p) ==
  /\ procs[p].kind = "oauth" /\ procs[p].pc = "getOAuthAccount"
  /\ LET profile == procs[p].profile
         existingOAuth == getOAuthAccount(oauth_accounts, profile.provider,
                                          profile.providerAccountId)
     IN  IF existingOAuth # {}
         THEN procs' = [procs EXCEPT ![p].pc = "ensureMembership",
                          ![p].user_id = (CHOOSE a \in existingOAuth : TRUE).user_id]
         ELSE IF profile.email # EMPTY
         THEN procs' = [procs EXCEPT ![p].pc = "getUserByEmail"]
         ELSE procs' = [procs EXCEPT ![p].pc = "insertUser"]
  /\ resp' = noResp
  /\ UNCHANGED << tables, now, ticks, nextCode, cookies, history >>
  /\ UNCHANGED extra
  /\ UNCHANGED edge

\* variant: an existing user is linked whether or not the provider verified
\* the e-mail
resolveGetUserByEmail_LinksUnverified(p) ==
  /\ procs[p].kind = "oauth" /\ procs[p].pc = "getUserByEmail"
  /\ LET existingUser == getUserByEmail(users, procs[p].profile.email)
     IN  procs' = [procs EXCEPT
           ![p].existingUser = existingUser,
           ![p].pc = IF existingUser # {} THEN "linkExisting" ELSE "insertUser"]
  /\ resp' = noResp
  /\ UNCHANGED << tables, now, ticks, nextCode, cookies, history >>
  /\ UNCHANGED extra
  /\ UNCHANGED edge

\* resolveUser 2: SELECT the user by e-mail; link only a verified e-mail
resolveGetUserByEmail(p) ==
  /\ procs[p].kind = "oauth" /\ procs[p].pc = "getUserByEmail"
  /\ LET existingUser == getUserByEmail(users, procs[p].profile.email)
     IN  procs' = [procs EXCEPT
           ![p].existingUser = existingUser,
           ![p].pc = IF existingUser # {} /\ procs[p].profile.emailVerified
                     THEN "linkExisting" ELSE "insertUser"]
  /\ resp' = noResp
  /\ UNCHANGED << tables, now, ticks, nextCode, cookies, history >>
  /\ UNCHANGED extra
  /\ UNCHANGED edge

\* link the provider account to the user found by e-mail
resolveLinkExisting(p) ==
  /\ procs[p].kind = "oauth" /\ procs[p].pc = "linkExisting"
  /\ LET existingUser == CHOOSE u \in procs[p].existingUser : TRUE
     IN  /\ oauth_accounts' = upsertOAuthAccount(oauth_accounts,
               [user_id |-> existingUser.id, provider |-> procs[p].profile.provider,
                provider_account_id |-> procs[p].profile.providerAccountId])
         /\ procs' = [procs EXCEPT
               ![p].user_id = existingUser.id,
               ![p].pc = IF ~existingUser.email_verified
                         THEN "markEmailVerified" ELSE "ensureMembership"]
  /\ resp' = noResp
  /\ UNCHANGED << tables, now, ticks, nextCode, cookies, history >>
  /\ UNCHANGED << password_reset_tokens, oauth_states, mailbox, nextHex,
                  passwordChanges >>
  /\ UNCHANGED edge

resolveMarkEmailVerified(p) ==
  /\ procs[p].kind = "oauth" /\ procs[p].pc = "markEmailVerified"
  /\ users' = markEmailVerified(users, procs[p].user_id)
  /\ procs' = [procs EXCEPT ![p].pc = "ensureMembership"]
  /\ resp' = noResp
  /\ UNCHANGED << memberships, auth_codes, refresh_tokens, now, ticks, nextCode,
                  cookies, history >>
  /\ UNCHANGED extra
  /\ UNCHANGED edge

\* resolveUser 3: INSERT INTO users (email is UNIQUE: a conflict throws, and
\* handleOAuthCallback turns the exception into oauth_failed)
resolveInsertUser(p) ==
  /\ procs[p].kind = "oauth" /\ procs[p].pc = "insertUser"
  /\ IF getUserByEmail(users, procs[p].profile.email) # {}
     THEN /\ resp' = oauthOutcome(p, oauthErrorRedirect(procs[p].stateData.tenant_id,
                          procs[p].stateData.redirect_url, "oauth_failed"))
          /\ procs' = [procs EXCEPT ![p] = idle]
          /\ UNCHANGED users
     ELSE /\ users' = insertUser(users,
               [id |-> generateUserId, email |-> procs[p].profile.email,
                email_verified |-> procs[p].profile.emailVerified,
                name |-> procs[p].profile.name, password_hash |-> null])
          /\ resp' = noResp
          /\ procs' = [procs EXCEPT ![p].pc = "linkNew", ![p].user_id = generateUserId]
  /\ UNCHANGED << memberships, auth_codes, refresh_tokens, now, ticks, nextCode,
                  cookies, history >>
  /\ UNCHANGED extra
  /\ UNCHANGED edge

\* link the provider account to the user just created
resolveLinkNew(p) ==
  /\ procs[p].kind = "oauth" /\ procs[p].pc = "linkNew"
  /\ oauth_accounts' = upsertOAuthAccount(oauth_accounts,
        [user_id |-> procs[p].user_id, provider |-> procs[p].profile.provider,
         provider_account_id |-> procs[p].profile.providerAccountId])
  /\ procs' = [procs EXCEPT ![p].pc = "ensureMembership"]
  /\ resp' = noResp
  /\ UNCHANGED << tables, now, ticks, nextCode, cookies, history >>
  /\ UNCHANGED << password_reset_tokens, oauth_states, mailbox, nextHex,
                  passwordChanges >>
  /\ UNCHANGED edge

oauthEnsureMembership(p) ==
  /\ procs[p].kind = "oauth" /\ procs[p].pc = "ensureMembership"
  /\ memberships' = ensureMembership(memberships, procs[p].user_id,
                                     procs[p].stateData.tenant_id, now)
  /\ procs' = [procs EXCEPT ![p].pc = "insertRefreshToken"]
  /\ resp' = noResp
  /\ UNCHANGED << users, auth_codes, refresh_tokens, now, ticks, nextCode,
                  cookies, history >>
  /\ UNCHANGED extra
  /\ UNCHANGED edge

oauthInsertRefreshToken(p) ==
  /\ procs[p].kind = "oauth" /\ procs[p].pc = "insertRefreshToken"
  /\ refresh_tokens' = insertRefreshToken(refresh_tokens,
        [token_hash |-> hashRefreshToken(generateRefreshToken),
         user_id |-> procs[p].user_id, family_id |-> generateFamilyId,
         expires_at |-> now + RefreshTtlSeconds], now)
  /\ procs' = [procs EXCEPT ![p].pc = "insertAuthCode",
                            ![p].refreshToken = generateRefreshToken]
  /\ resp' = noResp
  /\ UNCHANGED << users, memberships, auth_codes, now, ticks, nextCode,
                  cookies, history >>
  /\ UNCHANGED extra
  /\ UNCHANGED edge

oauthInsertAuthCode(p) ==
  /\ procs[p].kind = "oauth" /\ procs[p].pc = "insertAuthCode"
  /\ LET redirectValidation ==
           validateRedirectUrl(procs[p].stateData.redirect_url, ENVIRONMENT)
     IN  /\ auth_codes' = insertAuthCode(auth_codes,
               [code_hash |-> hashAuthCode(generateAuthCode),
                user_id |-> procs[p].user_id,
                tenant_id |-> procs[p].stateData.tenant_id,
                redirect_origin |-> redirectValidation.origin,
                aud |-> "storefront", expires_at |-> now + AUTH_CODE_TTL_SECONDS,
                code_challenge |-> null, code_challenge_method |-> null])
         /\ resp' = oauthOutcome(p, codeRedirect("oauth", redirectValidation.origin,
                                    generateAuthCode, procs[p].refreshToken))
                    @@ [user_id |-> procs[p].user_id]
  /\ nextCode' = nextCode + 1
  /\ cookies' = cookies \cup {procs[p].refreshToken}
  /\ minted' = minted @@ (generateAuthCode :>
        [via |-> "oauth", redirect |-> procs[p].stateData.redirect_url,
         audience |-> EMPTY, code_challenge |-> EMPTY, user_id |-> procs[p].user_id])
  /\ exchanged' = exchanged @@ (generateAuthCode :> 0)
  /\ procs' = [procs EXCEPT ![p] = idle]
  /\ UNCHANGED << users, memberships, refresh_tokens, now, ticks, rotations, detected,
                  mismatched, quota >>
  /\ UNCHANGED extra
  /\ UNCHANGED edge

\* alice registered with a password and has not verified her e-mail
OAUTH_USERS ==
  { [id |-> "user-1", email |-> "alice@example.com", email_verified |-> FALSE,
     password_hash |-> hashPassword(PASSWORD), name |-> "alice"] }

InitOAuth ==
  /\ users = OAUTH_USERS /\ memberships = {}
  /\ auth_codes = {} /\ refresh_tokens = {}
  /\ now = 1 /\ ticks = 0
  /\ procs = [p \in Procs |-> idle]
  /\ resp = noResp
  /\ nextCode = 0
  /\ cookies = {}
  /\ minted = << >> /\ exchanged = << >> /\ rotations = << >>
  /\ detected = {} /\ mismatched = {}
  /\ password_reset_tokens = {} /\ oauth_states = {} /\ oauth_accounts = {}
  /\ mailbox = {} /\ nextHex = 0 /\ passwordChanges = << >>
  /\ quota = MaxCodes
  /\ InitEdge

NextOAuth ==
  \/ \E p \in Slots, provider \in OAuthProviders, params \in OAuthInitParams :
       handleOAuthInit(p, provider, params)
  \/ \E p \in Slots, provider \in OAuthProviders, req \in OAuthCallbacks :
       handleProviderOAuthCallback(p, provider, req)
  \/ \E p \in Slots, outcome \in ExchangeOutcomes : oauthDeleteState(p, outcome)
  \/ \E p \in Slots : resolveGetOAuthAccount(p)
  \/ \E p \in Slots : resolveGetUserByEmail(p)
  \/ \E p \in Slots : resolveLinkExisting(p)
  \/ \E p \in Slots : resolveMarkEmailVerified(p)
  \/ \E p \in Slots : resolveInsertUser(p)
  \/ \E p \in Slots : resolveLinkNew(p)
  \/ \E p \in Slots : oauthEnsureMembership(p)
  \/ \E p \in Slots : oauthInsertRefreshToken(p)
  \/ \E p \in Slots : oauthInsertAuthCode(p)
  \/ Tick(STATE_TTL_SECONDS + 1)
  \/ Respond

SpecOAuth == InitOAuth /\ [][NextOAuth]_vars

\* a D1 statement of the callback rejects: resolveUser's statements run inside
\* the try block of handleOAuthCallback, every other statement's exception
\* reaches the catch block of the worker
RESOLVE_USER_STEPS ==
  {"getOAuthAccount", "getUserByEmail", "linkExisting", "markEmailVerified", "insertUser",
   "linkNew"}

oauthStatementThrows(p) ==
  /\ procs[p].kind = "oauth"
  /\ resp' = IF procs[p].pc \in RESOLVE_USER_STEPS
             THEN oauthOutcome(p, oauthErrorRedirect(procs[p].stateData.tenant_id,
                                     procs[p].stateData.redirect_url, "oauth_failed"))
             ELSE oauthOutcome(p, internalError("oauth"))
  /\ procs' = [procs EXCEPT ![p] = idle]
  /\ UNCHANGED << tables, now, ticks, nextCode, cookies, history >>
  /\ UNCHANGED extra
  /\ UNCHANGED edge

NextOAuthFaults ==
  \/ NextOAuth
  \/ \E p \in Slots : oauthStatementThrows(p)

\* federation with a data store whose statements can fail
SpecOAuthFaults == InitOAuth /\ [][NextOAuthFaults]_vars

\* ----------------------------------------------------------- tenant hint
\* a custom domain registered in TENANT_CONFIGS
ACME_REDIRECT == Url(TRUE, "https:", "shop.acme.test", "/cart", "")

\* tenant fields a form can carry: none, the branding slug, another tenant's id
TenantHints == {EMPTY, "test-tenant", "tenant-acme"}

TenantRegistrations ==
  { [email |-> e, password |-> PASSWORD, confirmPassword |-> PASSWORD, name |-> "",
     tenant |-> t, redirect |-> r, audience |-> EMPTY, code_challenge |-> EMPTY] :
      e \in {"alice@example.com"}, t \in TenantHints,
      r \in {STORE_REDIRECT, ACME_REDIRECT} }

TenantLogins ==
  { [email |-> "alice@example.com", password |-> PASSWORD, tenant |-> t,
     redirect |-> r, audience |-> EMPTY, code_challenge |-> EMPTY] :
      t \in TenantHints, r \in {STORE_REDIRECT, ACME_REDIRECT} }

InitTenant == InitTables /\ quota = MaxCodes

NextTenant ==
  \/ \E p \in Slots, body \in TenantRegistrations : handleRegister(p, body)
  \/ RegisterSteps
  \/ \E p \in Slots, body \in TenantLogins : handleLogin(p, body)
  \/ \E p \in Slots : loginEnsureMembership(p)
  \/ \E p \in Slots : loginInsertRefreshToken(p)
  \/ \E p \in Slots : loginInsertAuthCode(p)
  \/ Respond

SpecTenant == InitTenant /\ [][NextTenant]_vars

\* ------------------------------------------------------ the Worker's edge
Environments == {"production", "staging", "preview", "development"}

\* hosts `new URL` can yield: IPv4 literals, a bracketed IPv6 literal, names
IPv4_HOSTS == {"127.0.0.1", "192.168.1.1", "10.0.0.1"}

ProbeHosts == IPv4_HOSTS \cup {"[::1]", "localhost", "mystore.centerpiece.shop"}

ProbeUrls ==
  { Url(TRUE, protocol, hostname, pathname, hash) :
      protocol \in {"http:", "https:"}, hostname \in ProbeHosts,
      pathname \in {"/callback"}, hash \in {EMPTY, "#fragment"} }

\* the redirect validator applied to one URL in one deployment
callValidateRedirectUrl(url, env) ==
  /\ probe' = [kind |-> "redirect", url |-> url, environment |-> env,
               result |-> validateRedirectUrl(url, env)]
  /\ UNCHANGED << tables, now, ticks, procs, resp, nextCode, cookies, history, extra,
                  environment, rate_limits, letThrough, overlapped, failedOpen >>

\* ---- CORS and security headers
DEV_ORIGINS == {"http://localhost", "http://127.0.0.1"}

\* an Origin header: its text, and what `new URL(text)` makes of it
Origin(text, parsed, hostname) == [text |-> text, parsed |-> parsed, hostname |-> hostname]

Origins ==
  { Origin("https://test-store.centerpiece.shop", TRUE, "test-store.centerpiece.shop"),
    Origin("https://auth.centerpiecelab.com", TRUE, "auth.centerpiecelab.com"),
    Origin("https://evil.com", TRUE, "evil.com"),
    Origin("http://localhost:3000", TRUE, "localhost"),
    Origin("http://localhost.evil.com", TRUE, "localhost.evil.com"),
    Origin("http://127.0.0.1:8787", TRUE, "127.0.0.1"),
    Origin("null", FALSE, EMPTY),
    Origin(EMPTY, FALSE, EMPTY) }

isAllowedOrigin(origin, env) ==
  IF origin.text = EMPTY THEN FALSE
  ELSE IF ~origin.parsed THEN FALSE
  ELSE IF \E suffix \in CONTROLLED_SUFFIXES : endsWith(origin.hostname, suffix) THEN TRUE
  ELSE IF env # "production"
          /\ \E devOrigin \in DEV_ORIGINS : startsWith(origin.text, devOrigin) THEN TRUE
  ELSE origin.text = AUTH_DOMAIN

\* response headers are a function from header name to value
setHeader(headers, name, value) ==
  [n \in DOMAIN headers \cup {name} |-> IF n = name THEN value ELSE headers[n]]

setHeaderIfMissing(headers, name, value) ==
  IF name \in DOMAIN headers THEN headers ELSE setHeader(headers, name, value)

PREFLIGHT_HEADERS ==
  [n \in {"Access-Control-Allow-Methods", "Access-Control-Allow-Headers",
          "Access-Control-Max-Age", "Vary"} |->
     CASE n = "Access-Control-Allow-Methods" -> "GET, POST, OPTIONS"
       [] n = "Access-Control-Allow-Headers" -> "Content-Type, Authorization"
       [] n = "Access-Control-Max-Age" -> "86400"
       [] OTHER -> "Origin"]

handleCorsPreflightValidated(origin, env) ==
  LET isAllowed == isAllowedOrigin(origin, env)
  IN [status |-> 204,
      headers |->
        IF isAllowed /\ origin.text # EMPTY
        THEN setHeader(setHeader(PREFLIGHT_HEADERS, "Access-Control-Allow-Origin", origin.text),
                       "Access-Control-Allow-Credentials", "true")
        ELSE PREFLIGHT_HEADERS]

CSP == "default-src 'self'; frame-ancestors 'none'"

SECURITY_HEADERS ==
  [n \in {"X-Frame-Options", "X-Content-Type-Options", "Referrer-Policy", "Permissions-Policy"} |->
     CASE n = "X-Frame-Options" -> "DENY"
       [] n = "X-Content-Type-Options" -> "nosniff"
       [] n = "Referrer-Policy" -> "strict-origin-when-cross-origin"
       [] OTHER -> "camera=(), microphone=(), geolocation=(), payment=()"]

addSecurityHeaders(response) ==
  LET h1 == setHeaderIfMissing(response.headers, "X-Frame-Options", SECURITY_HEADERS["X-Frame-Options"])
      h2 == setHeaderIfMissing(h1, "X-Content-Type-Options", SECURITY_HEADERS["X-Content-Type-Options"])
      h3 == setHeaderIfMissing(h2, "Referrer-Policy", SECURITY_HEADERS["Referrer-Policy"])
      contentType == IF "Content-Type" \in DOMAIN h3 THEN h3["Content-Type"] ELSE EMPTY
      h4 == IF startsWith(contentType, "text/html")
            THEN setHeaderIfMissing(h3, "Content-Security-Policy", CSP)
            ELSE h3
      h5 == setHeaderIfMissing(h4, "Permissions-Policy", SECURITY_HEADERS["Permissions-Policy"])
  IN [status |-> response.status, headers |-> h5]

JSON_HEADERS == [n \in {"Content-Type"} |-> "application/json"]

\* headers of the HTML pages, which set three of the security headers themselves
PAGE_HEADERS ==
  [n \in {"Content-Type", "Cache-Control", "X-Content-Type-Options", "X-Frame-Options",
          "Referrer-Policy"} |->
     CASE n = "Content-Type" -> "text/html; charset=utf-8"
       [] n = "Cache-Control" -> "no-store"
       [] OTHER -> SECURITY_HEADERS[n]]

REDIRECT_HEADERS == [n \in {"Location"} |-> AUTH_DOMAIN \o "/login"]

\* what a route handler hands back to the worker
HandlerResponses ==
  { [status |-> 200, headers |-> JSON_HEADERS],
    [status |-> 400, headers |-> JSON_HEADERS],
    [status |-> 200, headers |-> PAGE_HEADERS],
    [status |-> 302, headers |-> REDIRECT_HEADERS] }

rateLimitedRoutes == {"/api/login", "/api/register", "/api/forgot-password", "/api/reset-password"}

ROUTES ==
  ({"GET"} \X {"/health", "/.well-known/jwks.json", "/login", "/register", "/reset-password",
               "/api/refresh", "/oauth/google", "/oauth/facebook", "/oauth/apple",
               "/oauth/microsoft", "/oauth/google/callback", "/oauth/facebook/callback",
               "/oauth/microsoft/callback"})
  \cup
  ({"POST"} \X {"/api/register", "/api/login", "/api/token", "/api/logout", "/api/logout-all",
                "/api/forgot-password", "/api/reset-password", "/oauth/apple/callback"})

Methods == {"GET", "POST", "DELETE"}

Paths == {"/health", "/login", "/api/login", "/api/token", "/nonexistent-route"}

\* how the work behind the worker's routing ends: the rate limiter refuses, the
\* handler throws, or the handler returns a response
HandlerOutcomes ==
  {[kind |-> "limited"], [kind |-> "throws"]}
  \cup { [kind |-> "response", response |-> r] : r \in HandlerResponses }

fetch(request, env, outcome) ==
  IF request.method = "OPTIONS" THEN handleCorsPreflightValidated(request.origin, env)
  ELSE IF request.method = "POST" /\ request.path \in rateLimitedRoutes /\ outcome.kind = "limited"
  THEN addSecurityHeaders([status |-> 429,
                           headers |-> setHeader(JSON_HEADERS, "Retry-After", "900")])
  ELSE IF << request.method, request.path >> \in ROUTES
  THEN IF outcome.kind = "throws"
       THEN addSecurityHeaders([status |-> 500, headers |-> JSON_HEADERS])
       ELSE addSecurityHeaders(outcome.response)
  ELSE addSecurityHeaders([status |-> 404, headers |-> JSON_HEADERS])

NO_ORIGIN == Origin(EMPTY, FALSE, EMPTY)
NO_OUTCOME == [kind |-> "none"]

\* an OPTIONS request through the worker: no route handler runs
callPreflight(path, origin, env) ==
  /\ probe' = [kind |-> "fetch", method |-> "OPTIONS", path |-> path, origin |-> origin,
               environment |-> env, outcome |-> NO_OUTCOME,
               response |-> fetch([method |-> "OPTIONS", path |-> path, origin |-> origin],
                                  env, NO_OUTCOME)]
  /\ UNCHANGED << tables, now, ticks, procs, resp, nextCode, cookies, history, extra,
                  environment, rate_limits, letThrough, overlapped, failedOpen >>

\* any other request through the worker; the outcome is one the route can have
callFetch(method, path, env, outcome) ==
  /\ method # "OPTIONS"
  /\ outcome.kind = "limited" => method = "POST" /\ path \in rateLimitedRoutes
  /\ outcome.kind = "throws" => << method, path >> \in ROUTES
  /\ probe' = [kind |-> "fetch", method |-> method, path |-> path, origin |-> NO_ORIGIN,
               environment |-> env, outcome |-> outcome,
               response |-> fetch([method |-> method, path |-> path, origin |-> NO_ORIGIN],
                                  env, outcome)]
  /\ UNCHANGED << tables, now, ticks, procs, resp, nextCode, cookies, history, extra,
                  environment, rate_limits, letThrough, overlapped, failedOpen >>

NextEdge ==
  \/ \E url \in ProbeUrls, env \in Environments : callValidateRedirectUrl(url, env)
  \/ \E path \in Paths, origin \in Origins, env \in Environments :
       callPreflight(path, origin, env)
  \/ \E method \in Methods, path \in Paths, env \in Environments,
        outcome \in HandlerOutcomes : callFetch(method, path, env, outcome)

InitEdgeProbes == InitTables /\ quota = 0

SpecEdge == InitEdgeProbes /\ [][NextEdge]_vars

\* ---------------------------------------------------------- rate limiting
MAX_ATTEMPTS_PRODUCTION == 10
MAX_ATTEMPTS_NON_PRODUCTION == 200
WINDOW_SECONDS == 15 * 60
\* requests a run of SpecRate lets through
MaxRequests == 12
\* rate-limit keys whose KV operations may fail in a run of SpecRate
MaxKvFailures == 1

KEY_SAFE ==
  Digits \cup
  {"a", "b", "c", "d", "e", "f", "g", "h", "i", "j", "k", "l", "m", "n", "o", "p", "q",
   "r", "s", "t", "u", "v", "w", "x", "y", "z", "A", "B", "C", "D", "E", "F", "G", "H",
   "I", "J", "K", "L", "M", "N", "O", "P", "Q", "R", "S", "T", "U", "V", "W", "X", "Y",
   "Z", ".", "_", ":", "/", "-"}

RECURSIVE replaceUnsafe(_)
replaceUnsafe(s) ==
  IF Len(s) = 0 THEN EMPTY
  ELSE (IF Head(s) \in KEY_SAFE THEN Head(s) ELSE "_") \o replaceUnsafe(Tail(s))

sanitizeKey(value) ==
  LET replaced == replaceUnsafe(value)
  IN IF Len(replaced) > 100 THEN SubSeq(replaced, 1, 100) ELSE replaced

windowStart(t) == (t \div WINDOW_SECONDS) * WINDOW_SECONDS

rateLimitKey(ip, route, t) ==
  "ratelimit:" \o sanitizeKey(ip) \o ":" \o sanitizeKey(route) \o ":" \o ToString(windowStart(t))

\* variant: the production cap is never applied
maxAttempts_NonProduction(env) == MAX_ATTEMPTS_NON_PRODUCTION
maxAttempts(env) ==
  IF env = "production" THEN MAX_ATTEMPTS_PRODUCTION ELSE MAX_ATTEMPTS_NON_PRODUCTION

\* CF-Connecting-IP and path of the requests
RateClients == { << "203.0.113.7", "/api/login" >> }

kvGet(key) == IF key \in DOMAIN rate_limits THEN rate_limits[key] ELSE 0

allowedSoFar(key) == IF key \in DOMAIN letThrough THEN letThrough[key] ELSE 0

bump(f, key, value) == [k \in DOMAIN f \cup {key} |-> IF k = key THEN value ELSE f[k]]

checksInFlight == Cardinality({ q \in Procs : procs[q].kind = "ratelimit" })

RECURSIVE sumOver(_, _)
sumOver(f, keys) ==
  IF keys = {} THEN 0
  ELSE LET k == CHOOSE x \in keys : TRUE IN f[k] + sumOver(f, keys \ {k})

\* POST to a rate-limited route: the worker computes the key and calls checkRateLimit
rateLimitedRequest(p, ip, route) ==
  /\ CanStart(p)
  /\ route \in rateLimitedRoutes
  /\ sumOver(letThrough, DOMAIN letThrough) + checksInFlight < MaxRequests
  /\ procs' = [procs EXCEPT ![p] =
       [kind |-> "ratelimit", pc |-> "get", ip |-> ip, route |-> route,
        now |-> now, key |-> rateLimitKey(ip, route, now),
        maxAttempts |-> maxAttempts(environment)]]
  /\ resp' = noResp
  /\ UNCHANGED << tables, now, ticks, nextCode, cookies, history, extra,
                  environment, probe, rate_limits, letThrough, overlapped, failedOpen >>

\* KV get; a count at the cap ends the request with a 429
rateLimitGet(p) ==
  /\ procs[p].kind = "ratelimit" /\ procs[p].pc = "get"
  /\ LET key == procs[p].key
         count == kvGet(key)
         racing == \E q \in Procs \ {p} :
                      procs[q].kind = "ratelimit" /\ procs[q].pc = "put" /\ procs[q].key = key
     IN /\ overlapped' = IF racing THEN overlapped \cup {key} ELSE overlapped
        /\ IF count >= procs[p].maxAttempts
           THEN /\ procs' = [procs EXCEPT ![p] = idle]
                /\ resp' = [kind |-> "ratelimit", status |-> 429, allowed |-> FALSE,
                            key |-> key, count |-> count,
                            retryAfterSeconds |->
                              IF windowStart(procs[p].now) + WINDOW_SECONDS - procs[p].now > 1
                              THEN windowStart(procs[p].now) + WINDOW_SECONDS - procs[p].now
                              ELSE 1]
           ELSE /\ procs' = [procs EXCEPT ![p] = [@ EXCEPT !.pc = "put"] @@ [count |-> count]]
                /\ resp' = noResp
  /\ UNCHANGED << tables, now, ticks, nextCode, cookies, history, extra,
                  environment, probe, rate_limits, letThrough, failedOpen >>

\* KV put of count + 1; the request goes on to its route handler
rateLimitPut(p) ==
  /\ procs[p].kind = "ratelimit" /\ procs[p].pc = "put"
  /\ LET key == procs[p].key
     IN /\ rate_limits' = bump(rate_limits, key, procs[p].count + 1)
        /\ letThrough' = bump(letThrough, key, allowedSoFar(key) + 1)
        /\ resp' = [kind |-> "ratelimit", status |-> 0, allowed |-> TRUE, key |-> key,
                    count |-> procs[p].count + 1]
  /\ procs' = [procs EXCEPT ![p] = idle]
  /\ UNCHANGED << tables, now, ticks, nextCode, cookies, history, extra,
                  environment, probe, overlapped, failedOpen >>

\* the KV get or put throws: the catch block allows the request
rateLimitKvFails(p) ==
  /\ procs[p].kind = "ratelimit"
  /\ Cardinality(failedOpen) < MaxKvFailures
  /\ LET key == procs[p].key
     IN /\ letThrough' = bump(letThrough, key, allowedSoFar(key) + 1)
        /\ failedOpen' = failedOpen \cup {key}
        /\ resp' = [kind |-> "ratelimit", status |-> 0, allowed |-> TRUE, key |-> key,
                    count |-> kvGet(key)]
  /\ procs' = [procs EXCEPT ![p] = idle]
  /\ UNCHANGED << tables, now, ticks, nextCode, cookies, history, extra,
                  environment, probe, rate_limits, overlapped >>

InitRate == InitDeployment /\ quota = 0 /\ environment \in {"production", "staging"}

NextRate ==
  \/ \E p \in Slots, client \in RateClients : rateLimitedRequest(p, client[1], client[2])
  \/ \E p \in Slots : rateLimitGet(p)
  \/ \E p \in Slots : rateLimitPut(p)
  \/ \E p \in Slots : rateLimitKvFails(p)
  \/ Tick(WINDOW_SECONDS)
  \/ Respond

SpecRate == InitRate /\ [][NextRate]_vars

\* admin tokens: users provisioned with seller / supplier roles hold sessions
SEEDED_USERS ==
  { [id |-> "user-1", email |-> "alice@example.com", email_verified |-> FALSE,
     password_hash |-> hashPassword(PASSWORD), name |-> "alice"] }

membership(userId, tenantId, role, status, t) ==
  [user_id |-> userId, tenant_id |-> tenantId, role |-> role, status |-> status,
   created_at |-> t]

\* alice as a customer only
CUSTOMER_ONLY == { membership("user-1", "__unknown__", "customer", "active", 0) }

\* alice sells for tenant-a and tenant-b and supplies tenant-a; her oldest
\* grant (platform_admin) is suspended
ADMIN_GRANTS ==
  CUSTOMER_ONLY \cup
  { membership("user-1", "tenant-c", "platform_admin", "suspended", 0),
    membership("user-1", "tenant-a", "seller", "active", 0),
    membership("user-1", "tenant-a", "supplier", "active", 1),
    membership("user-1", "tenant-b", "seller", "active", 1) }

SEEDED_SESSIONS ==
  insertRefreshToken({},
    [token_hash |-> hashRefreshToken("rt-1"), user_id |-> "user-1",
     family_id |-> "family-1", expires_at |-> 1 + RefreshTtlSeconds], 1)

\* token requests of a client that holds no PKCE verifier
PlainTokenParams == { t \in TokenParams : t.code_verifier = EMPTY }

InitAdmin ==
  /\ users = SEEDED_USERS /\ memberships \in {CUSTOMER_ONLY, ADMIN_GRANTS}
  /\ auth_codes = {} /\ refresh_tokens = SEEDED_SESSIONS
  /\ now = 1 /\ ticks = 0
  /\ procs = [p \in Procs |-> idle]
  /\ resp = noResp
  /\ nextCode = 0
  /\ cookies = {"rt-1"}
  /\ minted = << >> /\ exchanged = << >> /\ rotations = << >>
  /\ detected = {} /\ mismatched = {}
  /\ password_reset_tokens = {} /\ oauth_states = {} /\ oauth_accounts = {}
  /\ mailbox = {} /\ nextHex = 0 /\ passwordChanges = << >>
  /\ quota = MaxCodes
  /\ InitEdge

NextAdmin ==
  \/ \E p \in Slots, cookie \in PresentableCookies, params \in RefreshParams :
       handleRefresh(p, cookie, params)
  \/ \E p \in Slots : refreshRevokeFamily(p)
  \/ \E p \in Slots : rotateSelect(p)
  \/ \E p \in Slots : rotateRevokeFamily(p)
  \/ \E p \in Slots : rotateUpdate(p)
  \/ \E p \in Slots : rotateInsert(p)
  \/ \E p \in Slots : refreshInsertAuthCode(p)
  \/ \E p \in Slots, code \in PresentableCodes, params \in PlainTokenParams :
       handleTokenExchange(p, code, params)
  \/ \E p \in Slots, params \in PlainTokenParams : tokenDeleteAuthCode(p, params)
  \/ Tick(RefreshTtlSeconds)
  \/ Respond

SpecAdmin == InitAdmin /\ [][NextAdmin]_vars

\* --------------------------------------------------- every sign-in flow
\* a new shopper and a registered one, each towards the store and towards a
\* redirect outside the allowlist
MaxFlowCodes == 1

FlowRegistrations ==
  { [email |-> e, password |-> PASSWORD, confirmPassword |-> PASSWORD, name |-> "",
     tenant |-> "test-tenant", redirect |-> r, audience |-> EMPTY,
     code_challenge |-> EMPTY] :
      e \in {"bob@example.com", "alice@example.com"},
      r \in {STORE_REDIRECT, EVIL_REDIRECT} }

FlowLogins ==
  { [email |-> "alice@example.com", password |-> pw, tenant |-> "test-tenant",
     redirect |-> r, audience |-> EMPTY, code_challenge |-> EMPTY] :
      pw \in {PASSWORD, "WrongPassword123!"}, r \in {STORE_REDIRECT, EVIL_REDIRECT} }

\* alice holds seller grants, one of them suspended on the store's tenant, and
\* no customer row yet
FLOW_MEMBERSHIPS ==
  (ADMIN_GRANTS \ CUSTOMER_ONLY)
    \cup { membership("user-1", "__unknown__", "seller", "suspended", 0) }

\* alice's session has been rotated once: rt-1 is spent, rt-2 is live
FLOW_SESSIONS ==
  insertRefreshToken(revokeOldToken(SEEDED_SESSIONS, hashRefreshToken("rt-1"), 1),
    [token_hash |-> hashRefreshToken("rt-2"), user_id |-> "user-1",
     family_id |-> "family-1", expires_at |-> 1 + RefreshTtlSeconds], 1)

InitFlows ==
  /\ users = SEEDED_USERS /\ memberships = FLOW_MEMBERSHIPS
  /\ auth_codes = {} /\ refresh_tokens = FLOW_SESSIONS
  /\ now = 1 /\ ticks = 0
  /\ procs = [p \in Procs |-> idle]
  /\ resp = noResp
  /\ nextCode = 0
  /\ cookies = {"rt-1", "rt-2"}
  /\ minted = << >> /\ exchanged = << >> /\ rotations = ("rt-1" :> 1)
  /\ detected = {} /\ mismatched = {}
  /\ password_reset_tokens = {} /\ oauth_states = {} /\ oauth_accounts = {}
  /\ mailbox = {} /\ nextHex = 0 /\ passwordChanges = << >>
  /\ quota = MaxFlowCodes
  /\ InitEdge

NextFlows ==
  \/ \E p \in Slots, body \in FlowRegistrations : handleRegister(p, body)
  \/ RegisterSteps
  \/ \E p \in Slots, body \in FlowLogins : handleLogin(p, body)
  \/ \E p \in Slots : loginEnsureMembership(p)
  \/ \E p \in Slots : loginInsertRefreshToken(p)
  \/ \E p \in Slots : loginInsertAuthCode(p)
  \/ \E p \in Slots, cookie \in PresentableCookies, params \in RefreshParams :
       handleRefresh(p, cookie, params)
  \/ \E p \in Slots : refreshRevokeFamily(p)
  \/ \E p \in Slots : rotateSelect(p)
  \/ \E p \in Slots : rotateRevokeFamily(p)
  \/ \E p \in Slots : rotateUpdate(p)
  \/ \E p \in Slots : rotateInsert(p)
  \/ \E p \in Slots : refreshInsertAuthCode(p)
  \/ \E p \in Slots, params \in OAuthInitParams : handleOAuthInit(p, "google", params)
  \/ \E p \in Slots, req \in OAuthCallbacks : handleProviderOAuthCallback(p, "google", req)
  \/ \E p \in Slots, outcome \in ProviderProfiles("google") \cup {EXCHANGE_FAILED} :
       oauthDeleteState(p, outcome)
  \/ \E p \in Slots : resolveGetOAuthAccount(p)
  \/ \E p \in Slots : resolveGetUserByEmail(p)
  \/ \E p \in Slots : resolveLinkExisting(p)
  \/ \E p \in Slots : resolveMarkEmailVerified(p)
  \/ \E p \in Slots : resolveInsertUser(p)
  \/ \E p \in Slots : resolveLinkNew(p)
  \/ \E p \in Slots : oauthEnsureMembership(p)
  \/ \E p \in Slots : oauthInsertRefreshToken(p)
  \/ \E p \in Slots : oauthInsertAuthCode(p)
  \/ \E p \in Slots, code \in PresentableCodes, params \in PlainTokenParams :
       handleTokenExchange(p, code, params)
  \/ \E p \in Slots, params \in PlainTokenParams : tokenDeleteAuthCode(p, params)
  \/ Respond

SpecFlows == InitFlows /\ [][NextFlows]_vars

\* --------------------------------------------- ensureMembership alone
MaxMemberships == 2

\* rows an administrator or an earlier flow may have left behind
MEMBERSHIP_ROWS ==
  { membership(u, "tenant-a", role, status, 0) :
      u \in {"user-1", "user-2"}, role \in {"customer", "seller"},
      status \in {"active", "suspended", "invited"} }

\* UNIQUE(user_id, tenant_id, role)
uniqueMemberships(ms) ==
  \A m1, m2 \in ms :
    (m1.user_id = m2.user_id /\ m1.tenant_id = m2.tenant_id /\ m1.role = m2.role) => m1 = m2

MembershipTables ==
  { ms \in SUBSET MEMBERSHIP_ROWS : Cardinality(ms) <= MaxMemberships /\ uniqueMemberships(ms) }

callEnsureMembership(userId, tenantId) ==
  /\ memberships' = ensureMembership(memberships, userId, tenantId, now)
  /\ probe' = [kind |-> "ensureMembership", userId |-> userId, tenantId |-> tenantId,
               before |-> memberships]
  /\ UNCHANGED << users, auth_codes, refresh_tokens, now, ticks, procs, resp, nextCode,
                  cookies, history, extra, environment, rate_limits, letThrough,
                  overlapped, failedOpen >>

InitMembership ==
  /\ users = {} /\ memberships \in MembershipTables
  /\ auth_codes = {} /\ refresh_tokens = {}
  /\ now = 1 /\ ticks = 0
  /\ procs = [p \in Procs |-> idle]
  /\ resp = noResp
  /\ nextCode = 0
  /\ cookies = {}
  /\ minted = << >> /\ exchanged = << >> /\ rotations = << >>
  /\ detected = {} /\ mismatched = {}
  /\ password_reset_tokens = {} /\ oauth_states = {} /\ oauth_accounts = {}
  /\ mailbox = {} /\ nextHex = 0 /\ passwordChanges = << >>
  /\ quota = 0
  /\ InitEdge

NextMembership ==
  \E userId \in {"user-1", "user-2"}, tenantId \in {"tenant-a", "tenant-b"} :
    callEnsureMembership(userId, tenantId)

SpecMembership == InitMembership /\ [][NextMembership]_vars

\* ------------------------------------------- the expired-code sweeper
\* DELETE FROM auth_codes WHERE expires_at < now
cleanupExpiredCodes ==
  /\ resp = noResp
  /\ auth_codes' = { c \in auth_codes : ~(c.expires_at < now) }
  /\ UNCHANGED << users, memberships, refresh_tokens, now, ticks, procs, resp, nextCode,
                  cookies, history >>
  /\ UNCHANGED extra
  /\ UNCHANGED edge

\* codes are minted, presented in time, at the second they expire or later,
\* and swept at any moment
NextSweep ==
  \/ \E p \in Slots, body \in StoreRegistrations : handleRegister(p, body)
  \/ RegisterSteps
  \/ \E p \in Slots, code \in PresentableCodes, params \in PlainTokenParams :
       handleTokenExchange(p, code, params)
  \/ \E p \in Slots, params \in PlainTokenParams : tokenDeleteAuthCode(p, params)
  \/ cleanupExpiredCodes
  \/ \E d \in {AUTH_CODE_TTL_SECONDS, AUTH_CODE_TTL_SECONDS + 1} : Tick(d)
  \/ Respond

SpecSweep == InitExchange /\ [][NextSweep]_vars

\* ====================================================== properties
\* the row of a presented refresh token
rowOf(cookie) ==
  CHOOSE r \in refresh_tokens : r.token_hash = hashRefreshToken(cookie)

familyRows(cookie) ==
  { r \in refresh_tokens : r.family_id = rowOf(cookie).family_id }

refreshAnswered == resp.kind = "refresh" /\ validateRedirectUrl(resp.req.redirect, ENVIRONMENT).valid

refreshRejected ==
  resp.status = 302 /\ resp.error = "session_expired" /\ resp.code = EMPTY
  /\ resp.setCookie = EMPTY

\* C1: a refresh token presented again, after the request that rotated it
\* has returned its new cookie, is rejected with session_expired, and when
\* that response is returned every token of its family is revoked, the
\* replacement issued by the first request included.
C1_SequentialReuseRevokesFamily ==
  (refreshAnswered /\ resp.req.afterRotation) =>
     /\ refreshRejected
     /\ resp.clearCookie
     /\ \A r \in familyRows(resp.req.cookie) : r.revoked_at # NULL

C1_Witness ==
  /\ refreshAnswered /\ resp.req.afterRotation /\ refreshRejected
  /\ rotations[resp.req.cookie] = 1
  /\ Cardinality(familyRows(resp.req.cookie)) >= 2
  /\ \A r \in familyRows(resp.req.cookie) : r.revoked_at # NULL

\* C2: no refresh token is rotated successfully more than once, whatever the
\* interleaving of the requests that present it.
C2_AtMostOneRotation ==
  \A token \in DOMAIN rotations : rotations[token] <= 1

\* C3: a refresh request that starts after reuse was detected in the family
\* of the token it presents (the family-wide revocation has run) is
\* rejected with session_expired.
C3_NoAcceptanceAfterDetection ==
  (refreshAnswered /\ resp.req.afterDetection) => refreshRejected

\* ---- token exchange
tokenAnswered == resp.kind = "token"

presentedCode == Trim(resp.req.code)

\* the request names the tenant and origin the code was minted for
wellAddressed ==
  /\ presentedCode \in DOMAIN minted
  /\ resp.req.tenant_id =
       validateRedirectUrl(minted[presentedCode].redirect, ENVIRONMENT).tenantId
  /\ resp.req.redirect_origin = urlOrigin(minted[presentedCode].redirect)

\* C4: a token request that starts after some request has exchanged the same
\* code successfully is rejected with HTTP 400 and carries no access token.
C4_ReplayRejected ==
  (tokenAnswered /\ resp.afterExchange) => (resp.status = 400 /\ resp.payload = {})

C4_Witness ==
  /\ tokenAnswered /\ resp.afterExchange /\ wellAddressed
  /\ exchanged[presentedCode] = 1
  /\ resp.status = 400

\* C5: at most one access token is issued per authorization code, whatever
\* the interleaving of the requests that present it.
C5_AtMostOneTokenPerCode ==
  \A code \in DOMAIN exchanged : exchanged[code] <= 1

C7_SuppliedEqualsStored ==
  (tokenAnswered /\ resp.status = 200) =>
     \A row \in resp.row : /\ resp.req.tenant_id = row.tenant_id
                           /\ resp.req.redirect_origin = row.redirect_origin

\* C7 (amended): every request answered with an access token supplied a
\* tenant_id and a redirect_origin that, with surrounding whitespace trimmed,
\* equal the values stored with the code.
C7_TrimmedSuppliedEqualsStored ==
  (tokenAnswered /\ resp.status = 200) =>
     /\ resp.row # {}
     /\ \A row \in resp.row : /\ Trim(resp.req.tenant_id) = row.tenant_id
                              /\ Trim(resp.req.redirect_origin) = row.redirect_origin

C7_Witness ==
  /\ tokenAnswered /\ resp.status = 200
  /\ \E row \in resp.row : /\ resp.req.tenant_id # row.tenant_id
                           /\ Trim(resp.req.tenant_id) = row.tenant_id

\* C8 (as stated): when a challenge is stored with the code, the request is
\* answered 400 unless the S256 transform of the code_verifier it carries
\* equals the stored challenge.
C8_VerifierMatchesChallenge ==
  \A row \in IF tokenAnswered THEN resp.row ELSE {} :
     truthy(row.code_challenge) =>
        \/ resp.status = 400 /\ resp.payload = {}
        \/ sha256Base64Url(resp.req.code_verifier) = row.code_challenge

\* C8 (amended): when a challenge is stored with the code, the request is
\* answered 400 unless the S256 transform of the code_verifier it carries,
\* with surrounding whitespace trimmed, equals the stored challenge.
C8_TrimmedVerifierMatchesChallenge ==
  \A row \in IF tokenAnswered THEN resp.row ELSE {} :
     truthy(row.code_challenge) =>
        \/ resp.status = 400 /\ resp.payload = {}
        \/ sha256Base64Url(Trim(resp.req.code_verifier)) = row.code_challenge

C8_Witness ==
  /\ tokenAnswered /\ resp.status = 200
  /\ \E row \in resp.row :
        /\ truthy(row.code_challenge)
        /\ sha256Base64Url(resp.req.code_verifier) # row.code_challenge

\* a presented code that a login carrying these form fields minted
loginMinted(code) == code \in DOMAIN minted /\ minted[code].via = "login"

\* C9: for a code minted by a login with audience=admin and
\* code_challenge=s256(V): an exchange without code_verifier is answered
\* 400, one with another verifier is answered 400, and the first
\* well-addressed exchange with V before the code expires is answered 200.
C9_LoginBindsChallenge ==
  (/\ tokenAnswered /\ loginMinted(presentedCode)
   /\ minted[presentedCode].audience = "admin"
   /\ minted[presentedCode].code_challenge = CHALLENGE) =>
     /\ resp.req.code_verifier = EMPTY => resp.status = 400
     /\ Trim(resp.req.code_verifier) # VERIFIER => resp.status = 400
     /\ (/\ resp.req.code_verifier = VERIFIER /\ wellAddressed
         /\ \E row \in resp.row : row.expires_at > now) => resp.status = 200

\* C10: an access token obtained with a code that a login with
\* audience=admin, or with a redirect to an admin domain, minted has
\* aud = admin and carries jti, roles and primaryTenantId.
C10_LoginBindsAdminAudience ==
  (/\ tokenAnswered /\ resp.status = 200 /\ loginMinted(presentedCode)
   /\ \/ minted[presentedCode].audience = "admin"
      \/ minted[presentedCode].redirect.hostname \in ADMIN_DOMAINS) =>
     \A payload \in resp.payload :
        /\ payload.aud = "admin"
        /\ {"jti", "roles", "primaryTenantId"} \subseteq DOMAIN payload

\* ---- access-token claims
adminClaims == {"jti", "roles", "primaryTenantId"}

\* C11: an access token with aud = storefront carries none of jti, roles,
\* primaryTenantId; one with aud = admin carries all three, roles is an
\* array, and primaryTenantId is null or the tenant-id of one of the
\* memberships of the token's user.
C11_AdminClaimsShape ==
  \A payload \in IF tokenAnswered THEN resp.payload ELSE {} :
     /\ payload.aud = "storefront" => adminClaims \cap DOMAIN payload = {}
     /\ payload.aud = "admin" =>
          /\ adminClaims \subseteq DOMAIN payload
          /\ DOMAIN payload.roles = 1..Len(payload.roles)
          /\ \/ payload.primaryTenantId = null
             \/ \E m \in memberships : /\ m.user_id = payload.sub
                                       /\ m.tenant_id = payload.primaryTenantId

C11_Witness ==
  /\ tokenAnswered /\ resp.status = 200
  /\ \E payload \in resp.payload :
        /\ payload.aud = "admin"
        /\ payload.primaryTenantId = "tenant-a"
        /\ payload.roles = << "seller", "supplier" >>

\* ---- password reset
unrevokedOf(userId) ==
  { r \in refresh_tokens : r.user_id = userId /\ r.revoked_at = NULL }

\* C12: when a reset-password request is answered with the password_changed
\* redirect, no unrevoked refresh token of the user remains, whatever
\* requests run concurrently with it.
C12_ResetLeavesNoSession ==
  (resp.kind = "reset" /\ resp.message = "password_changed") =>
     unrevokedOf(resp.user_id) = {}

\* C13: one reset token changes a password at most once, whatever the
\* interleaving of the requests that present it.
C13_TokenChangesPasswordOnce ==
  \A token \in DOMAIN passwordChanges : passwordChanges[token] <= 1

\* C17: a forgot-password request is answered with the 302 reset_sent
\* redirect built from its tenant and redirect fields alone, and the step
\* that answers it inserts one reset-token row (of the account, holding the
\* hash of the mailed token) exactly when the e-mail belongs to a user.
C17_ForgotResponseUniform ==
  [][resp'.kind = "forgot" =>
       LET req == resp'.req
           account == getUserByEmail(users, Trim(req.email))
           inserted == password_reset_tokens' \ password_reset_tokens
       IN  /\ resp' = successRedirect(Trim(req.tenant), Trim(req.redirect))
                      @@ [req |-> req]
           /\ account = {} => inserted = {}
           /\ account # {} =>
                /\ Cardinality(inserted) = 1
                /\ \A row \in inserted :
                     /\ \E u \in account : row.user_id = u.id
                     /\ \E token \in mailbox' \ mailbox :
                          row.token_hash = sha256Hex(token)
                     /\ row.token_hash \notin mailbox']_vars

C17_Witness ==
  /\ resp.kind = "forgot"
  /\ getUserByEmail(users, Trim(resp.req.email)) # {}
  /\ \E row \in password_reset_tokens, token \in mailbox :
        row.token_hash = sha256Hex(token)

\* ---- login rejections
loginRejected == resp.kind = "login" /\ "req" \in DOMAIN resp

\* C18: a login with a valid redirect that is rejected (unknown e-mail,
\* account without a password hash, wrong password) is answered with one and
\* the same invalid_credentials redirect, built from the request alone.
C18_InvalidCredentialsUniform ==
  (/\ loginRejected
   /\ resp.req.redirect # NO_REDIRECT
   /\ validateRedirectUrl(resp.req.redirect, ENVIRONMENT).valid) =>
     resp = errorRedirect("login", "invalid_credentials")
            @@ [location |-> [path |-> "/login", tenant |-> Trim(resp.req.tenant),
                              redirect |-> resp.req.redirect],
                req |-> resp.req]

C18_Witness ==
  /\ loginRejected /\ resp.error = "invalid_credentials"
  /\ \E u \in getUserByEmail(users, Trim(resp.req.email)) : u.password_hash = null

registerValidationErrors ==
  {"invalid_redirect", "invalid_email", "password_weak", "password_mismatch"}

\* C16: registrations for one e-mail (compared case-insensitively) create at
\* most one user row, and a registration that passes validation and creates
\* no user is answered with the email_exists error redirect.
C16_DuplicateRegistrationRejected ==
  /\ \A u1, u2 \in users :
        toLowerCase(u1.email) = toLowerCase(u2.email) => u1 = u2
  /\ (/\ resp.kind = "register" /\ resp.code = EMPTY
      /\ resp.error \notin registerValidationErrors) =>
        resp = errorRedirect("register", "email_exists")

\* ---- refresh rejections
refreshRejection == resp.kind = "refresh" /\ resp.code = EMPTY

\* C19 (as stated): every rejection of GET /api/refresh is a 302 to
\* /login?error=session_expired with a Set-Cookie clearing the refresh cookie.
C19_AnyRejectionClearsCookie ==
  refreshRejection =>
     resp.status = 302 /\ resp.error = "session_expired" /\ resp.clearCookie

\* C19 (amended): a rejection is a 302 to /login whose error and Set-Cookie
\* depend on the cause: a missing or invalid redirect gives invalid_redirect
\* without Set-Cookie, a missing cookie gives session_expired without
\* Set-Cookie, and a presented token that is unknown, revoked, expired or
\* fails rotation gives session_expired with the clearing Set-Cookie.
C19_RejectionByCause ==
  refreshRejection =>
     /\ resp.status = 302
     /\ IF \/ resp.req.redirect = NO_REDIRECT
           \/ ~validateRedirectUrl(resp.req.redirect, ENVIRONMENT).valid
        THEN resp.error = "invalid_redirect" /\ ~resp.clearCookie
        ELSE IF resp.req.cookie = EMPTY
        THEN resp.error = "session_expired" /\ ~resp.clearCookie
        ELSE resp.error = "session_expired" /\ resp.clearCookie

C19_Witness ==
  /\ refreshRejection /\ resp.error = "session_expired" /\ resp.clearCookie
  /\ \E r \in getRefreshTokenByHash(refresh_tokens, hashRefreshToken(resp.req.cookie)) :
        r.revoked_at = NULL /\ r.expires_at <= now

\* ---- federated login
\* an OAuth callback answered after its state row was consumed
callbackAnswered == resp.kind = "oauth" /\ "stateData" \in DOMAIN resp

\* C14: a federated login whose provider reports the e-mail as unverified and
\* whose e-mail is that of an existing user ends with the provider account
\* linked to a new, separate user row.
C14_UnverifiedEmailCreatesSeparateUser ==
  (/\ callbackAnswered
   /\ resp.profile # EXCHANGE_FAILED
   /\ ~resp.profile.emailVerified
   /\ resp.existingUser # {}) =>
     \E a \in getOAuthAccount(oauth_accounts, resp.profile.provider,
                              resp.profile.providerAccountId) :
        /\ getUserById(users, a.user_id) # {}
        /\ \A e \in resp.existingUser : a.user_id # e.id

\* C15: a callback that presents a state created for another provider is
\* answered with oauth_failed, carries no cookie and no code, and the step
\* that answers it inserts no refresh token and no authorization code.
C15_ForeignStateRejected ==
  [][(/\ resp'.kind = "oauth" /\ "stateData" \in DOMAIN resp'
      /\ resp'.stateData.provider # resp'.provider) =>
        /\ resp'.status = 302 /\ resp'.error = "oauth_failed"
        /\ resp'.code = EMPTY /\ resp'.setCookie = EMPTY
        /\ refresh_tokens' = refresh_tokens /\ auth_codes' = auth_codes]_vars

C15_Witness ==
  /\ callbackAnswered /\ resp.error = "oauth_failed"
  /\ resp.stateData.provider = "google" /\ resp.provider = "apple"
  /\ ~(resp.stateData.expires_at < now)
  /\ selectOAuthState(oauth_states, resp.req.state) = {}
  /\ refresh_tokens = {} /\ auth_codes = {}

\* ---- single logout
\* C21: the step that answers POST /api/logout leaves the token of the cookie
\* revoked, leaves every other refresh token row as it was, adds and removes
\* no row, and the response clears the cookie.
C21_LogoutRevokesOnlyPresented ==
  [][resp'.kind = "logout" =>
       LET tokenHash == hashRefreshToken(resp'.req.cookie)
       IN  /\ resp'.status = 200 /\ resp'.clearCookie
           /\ \A r \in refresh_tokens : r.token_hash # tokenHash => r \in refresh_tokens'
           /\ \A r \in refresh_tokens' : r.token_hash = tokenHash => r.revoked_at # NULL
           /\ { r.token_hash : r \in refresh_tokens' } = { r.token_hash : r \in refresh_tokens }
           /\ Cardinality(refresh_tokens') = Cardinality(refresh_tokens)]_vars

C21_Witness ==
  /\ resp.kind = "logout"
  /\ \E r \in getRefreshTokenByHash(refresh_tokens, hashRefreshToken(resp.req.cookie)) :
        /\ r.revoked_at = now
        /\ \E o \in refresh_tokens :
              o.user_id = r.user_id /\ o.token_hash # r.token_hash /\ o.revoked_at = NULL

\* ---- tenant hint
\* register / login requests in flight that have resolved their user
sessionFlows ==
  { q \in Procs : procs[q].kind \in {"register", "login"} /\ procs[q].user_id # EMPTY }

ipv4Probe == probe.kind = "redirect" /\ probe.url.hostname \in IPv4_HOSTS

\* C23 (as stated): an IPv4-literal host is rejected in production and in
\* staging, and is accepted only for 127.0.0.1 with the http scheme.
C23_IPv4OnlyHttpLoopback ==
  ipv4Probe =>
     /\ probe.environment \in {"production", "staging"} => ~probe.result.valid
     /\ probe.result.valid =>
          probe.url.hostname = "127.0.0.1" /\ probe.url.protocol = "http:"

\* C23 (amended): an IPv4-literal host is rejected in production; in every
\* other environment, staging included, it is accepted only for 127.0.0.1,
\* with the http or the https scheme.
C23_IPv4OnlyLoopbackOutsideProduction ==
  ipv4Probe =>
     /\ probe.environment = "production" => ~probe.result.valid
     /\ probe.result.valid =>
          /\ probe.url.hostname = "127.0.0.1"
          /\ probe.environment # "production"
          /\ probe.url.protocol \in {"http:", "https:"}

C23_Witness ==
  /\ ipv4Probe /\ probe.result.valid
  /\ probe.url.hostname = "127.0.0.1" /\ probe.url.protocol = "https:"
  /\ probe.environment = "staging"

\* ---- CORS preflight
preflightProbe == probe.kind = "fetch" /\ probe.method = "OPTIONS"

onControlledList(origin) ==
  origin.parsed /\ \E suffix \in CONTROLLED_SUFFIXES : endsWith(origin.hostname, suffix)

\* C24: a preflight answers 204 with Vary: Origin; an origin on the controlled-suffix
\* list gets its own text back in Access-Control-Allow-Origin together with
\* Allow-Credentials: true; any other origin gets no Access-Control-Allow-Origin;
\* the value * is never emitted.
C24_PreflightOnlyControlledOrigins ==
  preflightProbe =>
    LET h == probe.response.headers
    IN /\ probe.response.status = 204
       /\ "Vary" \in DOMAIN h /\ h["Vary"] = "Origin"
       /\ onControlledList(probe.origin) =>
            /\ "Access-Control-Allow-Origin" \in DOMAIN h
            /\ h["Access-Control-Allow-Origin"] = probe.origin.text
            /\ "Access-Control-Allow-Credentials" \in DOMAIN h
            /\ h["Access-Control-Allow-Credentials"] = "true"
       /\ ~onControlledList(probe.origin) => "Access-Control-Allow-Origin" \notin DOMAIN h
       /\ "Access-Control-Allow-Origin" \in DOMAIN h => h["Access-Control-Allow-Origin"] # "*"

\* ---- security headers
\* C25: every response of the worker carries the four security headers, with the
\* default value wherever the handler had not set the header itself.
C25_EveryResponseHasSecurityHeaders ==
  probe.kind = "fetch" =>
    \A n \in DOMAIN SECURITY_HEADERS :
      /\ n \in DOMAIN probe.response.headers
      /\ (probe.outcome.kind = "response" /\ n \in DOMAIN probe.outcome.response.headers)
           \/ probe.response.headers[n] = SECURITY_HEADERS[n]

\* ---- rate limiting
capOf(env) == IF env = "production" THEN MAX_ATTEMPTS_PRODUCTION ELSE MAX_ATTEMPTS_NON_PRODUCTION

\* C26 (as stated): for every rate-limit key (IP, route, window) the number of
\* requests let through never exceeds the cap of the environment, whatever the
\* timing of the requests.
C26_NeverMoreThanCap ==
  \A key \in DOMAIN letThrough : letThrough[key] <= capOf(environment)

\* C26 (amended): for every rate-limit key whose checks ran one after another
\* and whose KV reads and writes succeeded, the number of requests let through
\* never exceeds the cap and equals the stored counter, and a 429 is answered
\* only once the cap has been reached.
C26_SerialChecksWithinCap ==
  /\ \A key \in DOMAIN letThrough :
       key \notin overlapped /\ key \notin failedOpen =>
         /\ letThrough[key] <= capOf(environment)
         /\ letThrough[key] = kvGet(key)
  /\ resp.kind = "ratelimit" /\ resp.key \notin overlapped /\ resp.key \notin failedOpen =>
       (resp.status = 429 => allowedSoFar(resp.key) = capOf(environment))

C26_Witness ==
  /\ resp.kind = "ratelimit" /\ resp.status = 429
  /\ resp.key \notin overlapped /\ resp.key \notin failedOpen
  /\ environment = "production"
  /\ allowedSoFar(resp.key) = MAX_ATTEMPTS_PRODUCTION

\* ---- token-exchange error texts
\* C27: a token request rejected because it names the wrong tenant gets the same
\* error text as the request for the same code that names the right tenant and
\* a wrong origin.
C27_TenantAndOriginMismatchAlike ==
  (tokenAnswered /\ resp.status = 400 /\ resp.row # {}) =>
    LET row == CHOOSE r \in resp.row : TRUE
        verifier == IF resp.req.code_verifier # EMPTY THEN Trim(resp.req.code_verifier)
                    ELSE null
    IN (row.expires_at > now /\ row.tenant_id # Trim(resp.req.tenant_id)) =>
         resp.error = tokenError(row, row.tenant_id, "https://wrong-origin.com", verifier, now)

\* ---- federation failures
\* C28: a federation callback that does not end with an authorization code is
\* answered with a 302 to the login page carrying error=oauth_failed.
C28_CallbackFailuresAreOAuthFailed ==
  (resp.kind = "oauth" /\ "req" \in DOMAIN resp /\ resp.code = EMPTY) =>
     /\ resp.status = 302
     /\ resp.error = "oauth_failed"
     /\ resp.location.path = "/login"

\* ---- rotation and the family's rows
familyOf(toks, familyId) == { r \in toks : r.family_id = familyId }

\* C29: right after a successful rotateRefreshToken call exactly one row of the
\* family is unrevoked, and it was created strictly later than every revoked
\* row of the family.
C29_OneLiveRowAfterRotation ==
  [][\A p \in Procs :
       (/\ procs[p].kind = "refresh" /\ procs'[p].kind = "refresh"
        /\ procs[p].pc = "rotateInsert" /\ procs'[p].pc = "insertAuthCode") =>
          LET family == familyOf(refresh_tokens', procs[p].existingToken.family_id)
              live == { r \in family : r.revoked_at = NULL }
          IN /\ Cardinality(live) = 1
             /\ \A l \in live, r \in family \ live : l.created_at > r.created_at]_vars

\* C30: rotation is atomic: in no state is a token marked as rotated (revoked
\* with a last-used timestamp) while its family holds no replacement row for it.
C30_RotationAtomic ==
  \A r \in refresh_tokens :
    LET family == familyOf(refresh_tokens, r.family_id)
        rotated == { o \in family : o.last_used_at # NULL }
    IN Cardinality(rotated) < Cardinality(family)

\* ---- order of the steps of one request
\* every D1 table
store == << users, memberships, auth_codes, refresh_tokens, password_reset_tokens,
            oauth_states, oauth_accounts >>

\* the request in flight has validated its redirect
redirectValidated(proc) ==
  IF proc.kind = "oauth" THEN proc.pc # "deleteState"
  ELSE proc.redirectValidation.valid

\* the request in flight has passed its credential check: the password
\* verification, the refresh-token lookup, the provider code exchange
credentialsChecked(proc) ==
  IF proc.kind = "oauth" THEN proc.profile # EXCHANGE_FAILED
  ELSE IF proc.kind = "login" THEN proc.user_id # EMPTY
  ELSE IF proc.kind = "refresh" THEN proc.existingToken.token_hash = hashRefreshToken(proc.req.cookie)
  ELSE TRUE

signInKinds == {"register", "login", "refresh", "oauth"}

\* a login or refresh request with an invalid redirect is answered
\* invalid_redirect whatever its credentials are, and no register, login or
\* refresh request with an invalid redirect is left in flight
invalidRedirectStopsFirst ==
  /\ \A q \in Procs : procs'[q].kind \in {"register", "login", "refresh"} =>
       procs'[q].redirectValidation.valid
  /\ (resp'.kind \in {"login", "refresh"} /\ "req" \in DOMAIN resp'
        /\ "error" \in DOMAIN resp'
        /\ ~validateRedirectUrl(resp'.req.redirect, ENVIRONMENT).valid) =>
       (resp'.error = "invalid_redirect" /\ store' = store)

\* C31 (as stated): in every request the redirect validation completes before
\* any credential check and every credential check before any table is
\* changed; the step that takes a request up changes no table, and a register,
\* login or refresh request whose redirect is invalid changes none.
C31_ValidateCheckMutate ==
  [][ /\ \A q \in Procs :
           (procs[q].kind \in signInKinds /\ procs'[q] # procs[q] /\ store' # store) =>
             (redirectValidated(procs[q]) /\ credentialsChecked(procs[q]))
      /\ \A q \in Procs :
           (procs[q] = idle /\ procs'[q] # idle /\ procs'[q].kind \in signInKinds) =>
             store' = store
      /\ invalidRedirectStopsFirst ]_vars

\* C31 (amended): as above for register, login and refresh; a federation
\* callback deletes its state row before the provider code exchange and before
\* the stored redirect is validated again, and changes every other table only
\* after both.
C31_ValidateCheckMutateExceptState ==
  [][ /\ \A q \in Procs :
           (procs[q].kind \in signInKinds /\ procs'[q] # procs[q] /\ store' # store) =>
             \/ redirectValidated(procs[q]) /\ credentialsChecked(procs[q])
             \/ /\ procs[q].kind = "oauth" /\ procs[q].pc = "deleteState"
                /\ oauth_states' = deleteOAuthState(oauth_states, procs[q].req.state)
                /\ UNCHANGED << tables, password_reset_tokens, oauth_accounts >>
      /\ \A q \in Procs :
           (procs[q] = idle /\ procs'[q] # idle /\ procs'[q].kind \in signInKinds) =>
             store' = store
      /\ invalidRedirectStopsFirst ]_vars

\* a login with a wrong password towards a redirect outside the allowlist has
\* been answered, and a callback has consumed its state row
C31_Witness ==
  /\ resp.kind = "login" /\ resp.error = "invalid_redirect"
  /\ resp.req.password # PASSWORD
  /\ nextHex > 0 /\ oauth_states = {}
  /\ users = SEEDED_USERS /\ memberships = FLOW_MEMBERSHIPS

\* ---- subject and audience of access tokens
\* C32: every access token issued by POST /api/token has the sub of the user
\* who completed the authentication that minted the exchanged code, and the
\* aud stored with that code.
C32_SubjectAndAudienceOfCode ==
  (tokenAnswered /\ resp.status = 200) =>
    /\ presentedCode \in DOMAIN minted
    /\ \A payload \in resp.payload, row \in resp.row :
         /\ payload.sub = minted[presentedCode].user_id
         /\ row.user_id = minted[presentedCode].user_id
         /\ row.code_hash = hashAuthCode(presentedCode)
         /\ payload.aud = row.aud
    /\ resp.payload # {} /\ resp.row # {}

\* the code a refresh minted for the admin audience has been exchanged
C32_Witness ==
  /\ tokenAnswered /\ resp.status = 200
  /\ minted[presentedCode].via = "refresh"
  /\ \E payload \in resp.payload : payload.aud = "admin" /\ payload.sub = "user-1"

\* ---- which user a federation callback resolves to
\* the callback in flight at q has just learnt its user
resolvesNow(q) ==
  /\ procs[q].kind = "oauth" /\ procs'[q].kind = "oauth"
  /\ procs[q].user_id = EMPTY /\ procs'[q].user_id # EMPTY

\* a link for the profile's (provider, providerAccountId) names the user
resolvedByLink(q) ==
  \E a \in getOAuthAccount(oauth_accounts, procs[q].profile.provider,
                           procs[q].profile.providerAccountId) :
    a.user_id = procs'[q].user_id

\* the provider confirmed the e-mail and it is the user's
resolvedByVerifiedEmail(q) ==
  /\ procs[q].profile.emailVerified
  /\ \E u \in users :
       u.id = procs'[q].user_id /\ u.email = toLowerCase(procs[q].profile.email)

\* C33: a federation callback resolves to a user that already exists only if
\* a link for (provider, providerAccountId) exists or the provider confirmed
\* emailVerified for that user's e-mail; every link, refresh token and
\* authorization code a callback creates is for the user it resolved to.
C33_ExistingUserByLinkOrVerifiedEmail ==
  [][ \A q \in Procs :
        /\ (resolvesNow(q) /\ \E u \in users : u.id = procs'[q].user_id) =>
             (resolvedByLink(q) \/ resolvedByVerifiedEmail(q))
        /\ (procs[q].kind = "oauth" /\ procs'[q].kind = "oauth"
              /\ procs[q].user_id # EMPTY) => procs'[q].user_id = procs[q].user_id
        /\ (procs[q].kind = "oauth" /\ procs'[q] # procs[q]) =>
             /\ \A a \in oauth_accounts' \ oauth_accounts :
                  procs'[q].kind = "oauth" /\ a.user_id = procs'[q].user_id
             /\ \A r \in refresh_tokens' \ refresh_tokens : r.user_id = procs[q].user_id
             /\ \A c \in auth_codes' \ auth_codes :
                  c.user_id = procs[q].user_id /\ procs[q].user_id # EMPTY ]_vars

\* a code was minted for alice through a callback with a verified e-mail, and
\* her new link is stored
C33_Witness ==
  /\ \E code \in DOMAIN minted : minted[code].via = "oauth" /\ minted[code].user_id = "user-1"
  /\ \E a \in oauth_accounts : a.user_id = "user-1"
  /\ \E u \in users : u.id = "user-1" /\ u.email_verified

\* ---- memberships the flows create
\* C34: every membership row a flow creates has role customer; no flow inserts
\* a row with another role, and no flow changes or removes an existing row.
C34_OnlyCustomerAutoCreated ==
  [][ /\ memberships \subseteq memberships'
      /\ \A m \in memberships' \ memberships : m.role = "customer" ]_vars

\* alice, a suspended seller of the store's tenant, has logged in and become
\* a customer of it; her other rows are as they were
C34_Witness ==
  /\ FLOW_MEMBERSHIPS \subseteq memberships
  /\ \E m \in memberships :
       m.user_id = "user-1" /\ m.tenant_id = "__unknown__" /\ m.role = "customer"
  /\ \E code \in DOMAIN minted : minted[code].via = "login"

\* ---- ensureMembership on a table that holds the customer row
ensureProbe == probe.kind = "ensureMembership"

\* the customer rows of the call's user and tenant
customerRows(ms, userId, tenantId) ==
  { m \in ms : m.user_id = userId /\ m.tenant_id = tenantId /\ m.role = "customer" }

\* C35: ensureMembership(userId, tenantId) changes nothing when a customer row
\* for (userId, tenantId) exists; it never inserts a duplicate, it leaves every
\* existing row as it was, and calling it again changes nothing.
C35_EnsureMembershipNoOpOnExisting ==
  ensureProbe =>
    /\ customerRows(probe.before, probe.userId, probe.tenantId) # {} =>
         memberships = probe.before
    /\ probe.before \subseteq memberships
    /\ Cardinality(customerRows(memberships, probe.userId, probe.tenantId)) = 1
    /\ \A t \in {now, now + 1} :
         ensureMembership(memberships, probe.userId, probe.tenantId, t) = memberships

\* called for a user whose customer row is suspended
C35_Witness ==
  /\ ensureProbe
  /\ \E m \in customerRows(probe.before, probe.userId, probe.tenantId) :
       m.status = "suspended"
  /\ memberships = probe.before

\* ---- order of the steps of POST /api/reset-password
\* the reset request in flight at q takes this step
resetSteps(q) == procs[q].kind = "reset" /\ procs'[q] # procs[q]

\* the row of the reset token of the request in flight at q
resetRowsOf(rows, q) == { r \in rows : r.token_hash = sha256Hex(procs[q].token) }

resolvingUser(q) == procs[q].kind = "oauth" /\ procs[q].pc # "deleteState"

\* C37: of the callbacks that present one state value at the same time, at
\* most one observes the row and goes on to the provider exchange and the
\* resolution of the user.
C37_StateConsumedOnce ==
  \A q1, q2 \in Procs :
    (resolvingUser(q1) /\ resolvingUser(q2)
       /\ procs[q1].req.state = procs[q2].req.state) => q1 = q2

\* ---- expired authorization codes
\* C38: a code whose expires-at has passed is never exchanged for an access
\* token, whether the sweeper has removed its row or not: the row of every
\* successful exchange expires later than the time of the exchange.
C38_ExpiredCodeNeverExchanged ==
  (tokenAnswered /\ resp.status = 200) =>
    /\ resp.row # {}
    /\ \A row \in resp.row : row.expires_at > now

\* a code presented at the very second it expires, its row not swept, has
\* been refused
C38_Witness ==
  /\ tokenAnswered /\ resp.status = 400
  /\ resp.error = "Authorization code has expired"
  /\ \E row \in resp.row : row.expires_at = now

\* ---- revocation is permanent
\* the rows of the refresh token a request presents
presentedRows(toks, cookie) == getRefreshTokenByHash(toks, hashRefreshToken(cookie))

\* C39: a revoked refresh-token row stays in the table and stays revoked, and
\* a refresh request that begins after its token was revoked is taken to the
\* family revocation and answered session_expired: it gets no rotated token
\* and no authorization code, and it mints none.
C39_RevocationPermanent ==
  [][ /\ \A r \in refresh_tokens : r.revoked_at # NULL =>
           \E r2 \in refresh_tokens' :
             r2.token_hash = r.token_hash /\ r2.revoked_at # NULL
      /\ \A q \in Procs :
           /\ (procs[q] = idle /\ procs'[q].kind = "refresh"
                 /\ \E r \in presentedRows(refresh_tokens, procs'[q].req.cookie) :
                      r.revoked_at # NULL) =>
                procs'[q].pc = "revokeFamily"
           /\ (procs[q].kind = "refresh" /\ procs'[q] # procs[q]
                 /\ procs[q].existingToken.revoked_at # NULL) =>
                /\ procs'[q] = idle
                /\ resp'.kind = "refresh" /\ resp'.error = "session_expired"
                /\ resp'.code = EMPTY /\ resp'.setCookie = EMPTY
                /\ UNCHANGED << auth_codes, minted, cookies >>
                /\ { r.token_hash : r \in refresh_tokens' }
                     = { r.token_hash : r \in refresh_tokens }
      /\ (resp'.kind = "refresh" /\ "req" \in DOMAIN resp' /\ resp'.req.afterRotation) =>
           (resp'.code = EMPTY /\ resp'.setCookie = EMPTY) ]_vars

\* a request that presented a token rotated before it began has been refused,
\* and the token and its replacement are both revoked
C39_Witness ==
  /\ resp.kind = "refresh" /\ resp.error = "session_expired"
  /\ resp.req.afterRotation
  /\ \A r \in refresh_tokens : r.revoked_at # NULL
  /\ Cardinality(refresh_tokens) >= 2

\* ---- the reach of a family revocation
\* the refresh request in flight at q revokes its family in this step
revokesFamily(q) ==
  /\ procs[q].kind = "refresh" /\ procs[q].pc \in {"revokeFamily", "rotateRevokeFamily"}
  /\ procs'[q] # procs[q]

\* C40: the family revocation that reuse detection triggers changes only rows
\* of that family: the tokens of other families, of the same user or of
\* another, are left as they are, and no row is added or removed.
C40_FamilyRevocationStaysInFamily ==
  [][ \A q \in Procs : revokesFamily(q) =>
        /\ \A r \in refresh_tokens :
             r.family_id # procs[q].existingToken.family_id => r \in refresh_tokens'
        /\ \A r \in refresh_tokens' :
             r.family_id = procs[q].existingToken.family_id => r.revoked_at # NULL
        /\ Cardinality(refresh_tokens') = Cardinality(refresh_tokens) ]_vars

\* alice's rotated family has been revoked after a replay, and the session of
\* her later login, a family of its own, is still live
C40_Witness ==
  /\ resp.kind = "refresh" /\ resp.error = "session_expired"
  /\ "family-1" \in detected
  /\ \A r \in refresh_tokens : r.family_id = "family-1" => r.revoked_at # NULL
  /\ \E r \in refresh_tokens :
       r.user_id = "user-1" /\ r.family_id # "family-1" /\ r.revoked_at = NULL

====
